---------------------------- MODULE Spec2Model ----------------------------
(***************************************************************************)
(* A model of the yeli-os file system (src/fs): the on-disk layout, the    *)
(* write-back block cache, the inode cache with its shared inode handles,  *)
(* and the FileSystem operations (create, open, allocate, look_up,         *)
(* create_inode, resize_inode, read_inode, write_inode,                    *)
(* get_inode_from_path), together with the builder tool and the kernel's   *)
(* boot-time use of the image.                                             *)
(*                                                                         *)
(* Sizes are scaled down: a block holds BLOCK_SIZE bytes where the source  *)
(* has 4096, an inode has N_DIRECT direct slots where the source has 28,   *)
(* and so on.  Every scaled size is a definition; the relations between    *)
(* them (DIR_ENTRY_SIZE divides BLOCK_SIZE, CAPACITY_PER_INODE =           *)
(* MAX_BLOCKS_PER_INODE * BLOCK_SIZE, ...) are those of the source.        *)
(***************************************************************************)
EXTENDS Integers, Sequences, FiniteSets, TLC

(***************************************************************************)
(* Scaled sizes.                                                           *)
(***************************************************************************)
\* size_of::<InodeId>() in bytes (8 in the source).
INUM_SIZE == 1
\* block_dev.rs:54 DIR_NAME_SIZE (24 in the source).
DIR_NAME_SIZE == 2
\* Directory entries per block (4096 / 32 = 128 in the source).
EntriesPerBlock == 1
\* block_dev.rs:42 N_DIRECT (28 in the source).
N_DIRECT == 2
\* block_dev.rs:45 N_INDIRECT (4096 / 8 = 512 in the source).
N_INDIRECT == 2
\* block_dev.rs:32 INODES_PER_BLOCK (32 in the source).
INODES_PER_BLOCK == 2
\* block_cache.rs:9 BLOCK_BUFFER_SIZE (64 in the source).
BLOCK_BUFFER_SIZE == 2
\* inode.rs:19 INODE_BUFFER_SIZE (64 in the source).
INODE_BUFFER_SIZE == 2
\* Number of blocks of the block device.
DevBlocks == 14

\* block_dev.rs:57 DIR_ENTRY_SIZE = size_of::<DirEntry>().
DIR_ENTRY_SIZE == INUM_SIZE + DIR_NAME_SIZE
\* block_dev.rs:26 BLOCK_SIZE.
BLOCK_SIZE == EntriesPerBlock * DIR_ENTRY_SIZE
\* block_dev.rs:48
MAX_BLOCKS_PER_INODE == N_DIRECT + N_INDIRECT
\* block_dev.rs:51
CAPACITY_PER_INODE == MAX_BLOCKS_PER_INODE * BLOCK_SIZE
\* block_dev.rs:60, lib.rs:65-69: DINODE_SIZE == BLOCK_SIZE / INODES_PER_BLOCK.
DINODE_SIZE == BLOCK_SIZE \div INODES_PER_BLOCK

(***************************************************************************)
(* Program constants.                                                      *)
(***************************************************************************)
FS_MAGIC == 1056816
SUPER_BLOCK_LOC == 1
BITS_PER_BYTE == 8
BYTE_FULL == 255
SLASH == 47
NUL == 0

Min(S) == CHOOSE x \in S : \A y \in S : x <= y
MinOf(a, b) == IF a <= b THEN a ELSE b
Pow2(n) == 2 ^ n
RemoveAt(s, i) == SubSeq(s, 1, i - 1) \o SubSeq(s, i + 1, Len(s))
Zeros(n) == [i \in 1..n |-> 0]

(***************************************************************************)
(* On-disk types.  A block is tagged with the type it was last written as: *)
(* "bytes" ([u8; BLOCK_SIZE]: data blocks and bitmap blocks), "index"      *)
(* (IndexBlock), "inodes" (packed DInode records) or "super" (SuperBlock). *)
(* The source casts the same buffer to each of these types; an all-zero    *)
(* buffer is the zero value of every type.                                 *)
(***************************************************************************)
InodeTypeInvalid == "Invalid"
InodeTypeFile == "File"
InodeTypeDirectory == "Directory"

\* DInode::initialize
DInodeInitialize(type_) ==
    [type_ |-> type_, indirect |-> 0, links_num |-> 0, size |-> 0,
     addresses |-> Zeros(N_DIRECT)]

ZeroSuperBlock ==
    [magic |-> 0, blocks |-> 0, inode_bmap_start |-> 0, inode_start |-> 0,
     inode_blocks |-> 0, data_bmap_start |-> 0, data_start |-> 0,
     data_blocks |-> 0]

ZeroOf(kind) ==
    CASE kind = "bytes"  -> Zeros(BLOCK_SIZE)
      [] kind = "index"  -> Zeros(N_INDIRECT)
      [] kind = "inodes" -> [i \in 1..INODES_PER_BLOCK |-> DInodeInitialize(InodeTypeInvalid)]
      [] kind = "super"  -> ZeroSuperBlock

ZeroBlock == [kind |-> "bytes", v |-> Zeros(BLOCK_SIZE)]

\* BlockCache::get_ref / get_mut: the buffer seen as a value of type `kind`.
ViewAs(block, kind) ==
    IF block.kind = kind THEN block.v ELSE ZeroOf(kind)

\* SuperBlock::new
SuperBlockNew(blocks, inode_bmap_start, inode_start, inode_blocks, data_bmap_start, data_start, data_blocks) ==
    [magic |-> FS_MAGIC, blocks |-> blocks, inode_bmap_start |-> inode_bmap_start,
     inode_start |-> inode_start, inode_blocks |-> inode_blocks,
     data_bmap_start |-> data_bmap_start, data_start |-> data_start,
     data_blocks |-> data_blocks]

\* SuperBlock::is_valid
SuperBlockIsValid(super_block) == super_block.magic = FS_MAGIC

\* SuperBlock::find_inode
FindInode(s, inum) ==
    [block_id |-> inum \div INODES_PER_BLOCK + s.inode_start,
     offset |-> (inum % INODES_PER_BLOCK) * DINODE_SIZE]

(***************************************************************************)
(* BitmapBlock.                                                            *)
(***************************************************************************)
BitSet(byte, offset) == (byte \div Pow2(offset)) % 2 = 1

\* BitmapBlock::allocate: the index of the first byte that is not 0xff and,
\* in it, of the lowest clear bit; 0 when every byte is full.
BitmapFirstByte(inner) ==
    IF \E i \in 1..Len(inner) : inner[i] # BYTE_FULL
    THEN Min({i \in 1..Len(inner) : inner[i] # BYTE_FULL}) ELSE 0

BitmapLowestClear(byte) ==
    Min({o \in 0..(BITS_PER_BYTE - 1) : ~BitSet(byte, o)})

\* [found, idx, inner]: the result of BitmapBlock::allocate and the block after it.
BitmapAllocate(inner) ==
    LET i == BitmapFirstByte(inner) IN
    IF i = 0 THEN [found |-> FALSE, idx |-> 0, inner |-> inner]
    ELSE LET o == BitmapLowestClear(inner[i]) IN
         [found |-> TRUE, idx |-> (i - 1) * BITS_PER_BYTE + o,
          inner |-> [inner EXCEPT ![i] = inner[i] + Pow2(o)]]

\* `byte & !(1 << offset)`
ClearBit(byte, offset) == IF BitSet(byte, offset) THEN byte - Pow2(offset) ELSE byte

\* BitmapBlock::free without its assert_ne.
BitmapFreeUnchecked(inner, idx) ==
    [ok |-> TRUE,
     inner |-> [inner EXCEPT ![idx \div BITS_PER_BYTE + 1] = ClearBit(@, idx % BITS_PER_BYTE)]]

\* [ok, inner]: BitmapBlock::free(idx); the assert_ne panics when the bit
\* is clear.
BitmapFree(inner, idx) ==
    IF ~BitSet(inner[idx \div BITS_PER_BYTE + 1], idx % BITS_PER_BYTE)
    THEN [ok |-> FALSE, inner |-> inner]
    ELSE [ok |-> TRUE,
          inner |-> [inner EXCEPT ![idx \div BITS_PER_BYTE + 1] = ClearBit(@, idx % BITS_PER_BYTE)]]

\* The set of bit indices set in a bitmap block.
BitmapBits(inner) ==
    {k \in 0..(Len(inner) * BITS_PER_BYTE - 1) :
        BitSet(inner[k \div BITS_PER_BYTE + 1], k % BITS_PER_BYTE)}

(***************************************************************************)
(* DirEntry.                                                               *)
(***************************************************************************)
\* The little-endian bytes of an integer stored in n bytes.
EncodeLE(x, n) == [i \in 1..n |-> (x \div (256 ^ (i - 1))) % 256]

RECURSIVE DecodeLE(_)
DecodeLE(bytes) ==
    IF bytes = << >> THEN 0 ELSE bytes[1] + 256 * DecodeLE(Tail(bytes))

\* DirEntry::new: the bytes of the entry; the name is copied into a
\* zero-filled array of DIR_NAME_SIZE bytes (a longer name panics).
DirEntryNew(name, inum) ==
    EncodeLE(inum, INUM_SIZE) \o
    [i \in 1..DIR_NAME_SIZE |-> IF i <= Len(name) THEN name[i] ELSE NUL]

\* DirEntry::inode_num of an entry read as DIR_ENTRY_SIZE bytes.
DirEntryInum(bytes) == DecodeLE(SubSeq(bytes, 1, INUM_SIZE))

\* DirEntry::name: the name bytes up to the first NUL.
DirEntryName(bytes) ==
    LET raw == SubSeq(bytes, INUM_SIZE + 1, INUM_SIZE + DIR_NAME_SIZE)
        len == IF \E i \in 1..DIR_NAME_SIZE : raw[i] = NUL
               THEN Min({i \in 1..DIR_NAME_SIZE : raw[i] = NUL}) - 1
               ELSE DIR_NAME_SIZE
    IN SubSeq(raw, 1, len)

(***************************************************************************)
(* Path parsing.                                                           *)
(***************************************************************************)
\* The first position >= p of path that does not hold c = "/" (want = FALSE)
\* or that holds it (want = TRUE); Len(path) + 1 when there is none.
RECURSIVE SkipWhile(_, _, _)
SkipWhile(path, p, slash) ==
    IF p <= Len(path) /\ ((path[p] = SLASH) = slash)
    THEN SkipWhile(path, p + 1, slash) ELSE p

\* skip: [some, name, rest].
Skip(path) ==
    LET p1 == SkipWhile(path, 1, TRUE) IN
    IF p1 = Len(path) + 1 THEN [some |-> FALSE, name |-> << >>, rest |-> << >>]
    ELSE LET p2 == SkipWhile(path, p1, FALSE)
             p3 == SkipWhile(path, p2, TRUE)
         IN [some |-> TRUE, name |-> SubSeq(path, p1, p2 - 1),
             rest |-> SubSeq(path, p3, Len(path))]


(***************************************************************************)
(* The machine state an operation works on: m.dev is the block device,     *)
(* m.bc the BlockCacheBuffer (front first), m.ic the InodeCacheBuffer      *)
(* (head first), m.heap the Arc<Mutex<Inode>> cells by handle, and m.st is *)
(* "ok" until the running thread panics ("panic") or spins forever on a    *)
(* spin::Mutex it already holds ("hang").  Every step below leaves a       *)
(* machine that is not "ok" as it is.                                      *)
(***************************************************************************)
Fail(m, how) == [m EXCEPT !.st = how]

\* A sync that marks the entry clean and writes nothing.
BlockCacheSyncLost(dev, entry) == dev

\* BlockDevice::write through BlockCache::sync: a clean entry is not written.
BlockCacheSync(dev, entry) ==
    IF entry.modified THEN [dev EXCEPT ![entry.block_id] = entry.cache] ELSE dev

\* A search that looks at the front entry only.
InBlockCacheFront(bc, block_id) == bc # << >> /\ bc[1].block_id = block_id

InBlockCache(bc, block_id) == \E i \in 1..Len(bc) : bc[i].block_id = block_id
BlockCacheIndex(bc, block_id) == CHOOSE i \in 1..Len(bc) : bc[i].block_id = block_id

\* A recycling step that takes the front entry whoever holds it.
EvictIndexFront(bc, busy) == 1

\* BlockCacheBuffer::get.  `busy` are the block ids whose entries the caller
\* still holds an Arc of (Arc::strong_count > 1).
EvictIndex(bc, busy) == Min({i \in 1..Len(bc) : bc[i].block_id \notin busy})

\* The recycling step of get: the first entry nobody else refers to is
\* removed, and dropping it writes it back.
BlockCacheEvict(m, idx) ==
    [m EXCEPT !.dev = BlockCacheSync(m.dev, m.bc[idx]), !.bc = RemoveAt(m.bc, idx)]

\* BlockCache::new pushed at the back: the block is read from the device.
BlockCacheLoad(m, block_id) ==
    IF block_id \notin DOMAIN m.dev THEN Fail(m, "panic")
    ELSE [m EXCEPT !.bc = Append(m.bc,
             [block_id |-> block_id, cache |-> m.dev[block_id], modified |-> FALSE])]

\* A get that allocates one more buffer when every entry is busy.
BlockCacheGetGrowing(m, block_id, busy) ==
    IF m.st # "ok" THEN m
    ELSE IF InBlockCache(m.bc, block_id) THEN m
    ELSE IF Len(m.bc) < BLOCK_BUFFER_SIZE THEN BlockCacheLoad(m, block_id)
    ELSE IF \A i \in 1..Len(m.bc) : m.bc[i].block_id \in busy
         THEN BlockCacheLoad(m, block_id)
    ELSE BlockCacheLoad(BlockCacheEvict(m, EvictIndex(m.bc, busy)), block_id)

BlockCacheGet(m, block_id, busy) ==
    IF m.st # "ok" THEN m
    ELSE IF InBlockCache(m.bc, block_id) THEN m
    ELSE IF Len(m.bc) < BLOCK_BUFFER_SIZE THEN BlockCacheLoad(m, block_id)
    ELSE IF \A i \in 1..Len(m.bc) : m.bc[i].block_id \in busy THEN Fail(m, "panic")
    ELSE BlockCacheLoad(BlockCacheEvict(m, EvictIndex(m.bc, busy)), block_id)

\* BlockCache::read of a cached block as a value of type `kind`.
BlockCacheRead(m, block_id, kind) ==
    ViewAs(m.bc[BlockCacheIndex(m.bc, block_id)].cache, kind)

\* BlockCache::write (get_mut sets `modified`).
BlockCacheWrite(m, block_id, kind, v) ==
    [m EXCEPT !.bc[BlockCacheIndex(m.bc, block_id)] =
        [block_id |-> block_id, cache |-> [kind |-> kind, v |-> v],
         modified |-> TRUE]]

\* BlockCache::sync of the i-th cached block.
BlockCacheSyncEntry(m, i) ==
    [m EXCEPT !.dev = BlockCacheSync(m.dev, m.bc[i]), !.bc[i].modified = FALSE]

\* BlockCacheBuffer::flush.
RECURSIVE FlushFrom(_, _)
FlushFrom(m, i) ==
    IF i > Len(m.bc) THEN m ELSE FlushFrom(BlockCacheSyncEntry(m, i), i + 1)

BlockCacheFlush(m) == IF m.st # "ok" THEN m ELSE FlushFrom(m, 1)

\* Drop for BlockCache, of every entry: the last reference to the
\* BlockCacheBuffer goes away.
RECURSIVE DropEntriesFrom(_, _, _)
DropEntriesFrom(dev, bc, i) ==
    IF i > Len(bc) THEN dev
    ELSE DropEntriesFrom(BlockCacheSync(dev, bc[i]), bc, i + 1)

BlockCacheDropAll(dev, bc) == DropEntriesFrom(dev, bc, 1)

\* The contents of a block as the file system sees it: the cached copy when
\* there is one, the device's otherwise.
Through(dev, bc, block_id) ==
    IF InBlockCache(bc, block_id) THEN bc[BlockCacheIndex(bc, block_id)].cache
    ELSE dev[block_id]

(***************************************************************************)
(* Inode handles and the inode cache.                                      *)
(***************************************************************************)
\* Inode::new: the in-memory copy of an on-disk record.
InodeNew(block_id, in_block_offset, inode_num, dinode) ==
    [block_id |-> block_id, in_block_offset |-> in_block_offset,
     inode_num |-> inode_num, type_ |-> dinode.type_,
     indirect |-> dinode.indirect, links_num |-> dinode.links_num,
     size |-> dinode.size, addresses |-> dinode.addresses]

\* Inode::dinode: the record rebuilt from the handle's copy.
InodeDinode(inode) ==
    [type_ |-> inode.type_, indirect |-> inode.indirect,
     links_num |-> inode.links_num, size |-> inode.size,
     addresses |-> inode.addresses]

\* FileSystem::max_inode_num
MaxInodeNum(s) == s.inode_blocks * INODES_PER_BLOCK

\* FileSystem::max_blocks_num
MaxBlocksNum(s) == MinOf(s.data_blocks, s.inode_blocks * MAX_BLOCKS_PER_INODE)

\* The record slot of an in-block offset.
SlotOf(in_block_offset) == in_block_offset \div DINODE_SIZE + 1

\* A handle not in use: Arc::new.
FreshHandle(heap) == Min({h \in 1..(Cardinality(DOMAIN heap) + 1) : h \notin DOMAIN heap})

InInodeCache(ic, inum) == \E i \in 1..Len(ic) : ic[i].inum = inum
InodeCacheIndex(ic, inum) == CHOOSE i \in 1..Len(ic) : ic[i].inum = inum

\* The range check of InodeCacheBuffer::get.
InodeOutOfRange(s, inum) == inum > MaxInodeNum(s)

\* A cache that keeps its last entry when it is full.
InodeCacheUntrimmed(ic) == ic

\* The removal of the last entry of a full inode cache.
InodeCacheTrim(ic) ==
    IF Len(ic) = INODE_BUFFER_SIZE THEN SubSeq(ic, 1, INODE_BUFFER_SIZE - 1) ELSE ic

\* A hit: the entry moves to the head.
InodeCacheHit(m, inum, pos) ==
    [m |-> [m EXCEPT !.ic = <<m.ic[pos]>> \o RemoveAt(m.ic, pos)],
     ok |-> TRUE, h |-> m.ic[pos].h]

\* A miss: a new cell is built from the record in the (loaded) inode block.
InodeCacheMiss(m, inum, loc) ==
    IF m.st # "ok" THEN [m |-> m, ok |-> FALSE, h |-> 0]
    ELSE [m |-> [m EXCEPT !.heap = (FreshHandle(m.heap) :>
                        InodeNew(loc.block_id, loc.offset, inum,
                            BlockCacheRead(m, loc.block_id, "inodes")[SlotOf(loc.offset)]))
                        @@ m.heap,
                    !.ic = <<[inum |-> inum, h |-> FreshHandle(m.heap)]>> \o m.ic],
          ok |-> TRUE, h |-> FreshHandle(m.heap)]

\* InodeCacheBuffer::get once the last entry of a full cache is removed.
InodeCacheLookup(m, s, inum) ==
    IF InInodeCache(m.ic, inum)
    THEN InodeCacheHit(m, inum, InodeCacheIndex(m.ic, inum))
    ELSE InodeCacheMiss(BlockCacheGet(m, FindInode(s, inum).block_id, {}),
                        inum, FindInode(s, inum))

\* InodeCacheBuffer::get: [m, ok, h].
InodeCacheGet(m, s, inum) ==
    IF m.st # "ok" THEN [m |-> m, ok |-> FALSE, h |-> 0]
    ELSE IF InodeOutOfRange(s, inum) THEN [m |-> m, ok |-> FALSE, h |-> 0]
    ELSE InodeCacheLookup([m EXCEPT !.ic = InodeCacheTrim(m.ic)], s, inum)

\* Inode::update inside FileSystem::update_dinode: the handle's copy is
\* refreshed from the record just written.
InodeUpdate(inode, dinode) ==
    [inode EXCEPT !.type_ = dinode.type_, !.indirect = dinode.indirect,
                  !.links_num = dinode.links_num, !.size = dinode.size,
                  !.addresses = dinode.addresses]

\* The on-disk record of handle h, read through the (already loaded) entry.
DinodeOnDisk(m, h) ==
    BlockCacheRead(m, m.heap[h].block_id, "inodes")[SlotOf(m.heap[h].in_block_offset)]

\* The tail of FileSystem::update_dinode once the closure has produced
\* `dinode`: the record is stored in the entry and the handle is updated.
StoreDinode(m, h, dinode) ==
    [BlockCacheWrite(m, m.heap[h].block_id, "inodes",
         [BlockCacheRead(m, m.heap[h].block_id, "inodes")
             EXCEPT ![SlotOf(m.heap[h].in_block_offset)] = dinode])
     EXCEPT !.heap[h] = InodeUpdate(m.heap[h], dinode)]

\* The head of FileSystem::update_dinode: the entry of the inode's block is
\* fetched and locked.
UpdateDinode(m, h) ==
    IF m.st # "ok" THEN m ELSE BlockCacheGet(m, m.heap[h].block_id, {})

\* update_dinode with the closure of set_inode_size, on the loaded entry.
SetSizeLoaded(m, h, size) ==
    IF m.st # "ok" THEN m
    ELSE StoreDinode(m, h, [DinodeOnDisk(m, h) EXCEPT !.size = size])

\* FileSystem::set_inode_size
SetInodeSize(m, h, size) == SetSizeLoaded(UpdateDinode(m, h), h, size)

\* update_dinode with `|dinode| dinode.initialize(type_)`, on the loaded entry.
InitializeLoaded(m, h, type_) ==
    IF m.st # "ok" THEN m ELSE StoreDinode(m, h, DInodeInitialize(type_))

\* update_dinode with `|dinode| dinode.links_num += 1`, on the loaded entry.
LinkLoaded(m, h) ==
    IF m.st # "ok" THEN m
    ELSE StoreDinode(m, h, [DinodeOnDisk(m, h) EXCEPT
                               !.links_num = DinodeOnDisk(m, h).links_num + 1])

(***************************************************************************)
(* Allocation.                                                             *)
(***************************************************************************)
\* FileSystem::allocate_bmap: [m, found, id].
RECURSIVE AllocateBmapFrom(_, _, _, _)
\* One bitmap block: r is what BitmapBlock::allocate returned on block i.
AllocateBmapIn(m, i, start, end, r) ==
    IF r.found
    THEN [m |-> BlockCacheWrite(m, i, "bytes", r.inner), found |-> TRUE,
          id |-> (i - start) * BITS_PER_BYTE * BLOCK_SIZE + r.idx]
    ELSE AllocateBmapFrom(BlockCacheWrite(m, i, "bytes", r.inner), i + 1, start, end)

\* One round of the loop once the entry of bitmap block i is loaded.
AllocateBmapLoaded(m, i, start, end) ==
    IF m.st # "ok" THEN [m |-> m, found |-> FALSE, id |-> 0]
    ELSE AllocateBmapIn(m, i, start, end, BitmapAllocate(BlockCacheRead(m, i, "bytes")))

AllocateBmapFrom(m, i, start, end) ==
    IF m.st # "ok" \/ i >= end THEN [m |-> m, found |-> FALSE, id |-> 0]
    ELSE AllocateBmapLoaded(BlockCacheGet(m, i, {}), i, start, end)

AllocateBmap(m, start, end) == AllocateBmapFrom(m, start, start, end)

\* FileSystem::allocate_data_block: [m, some, block_id].
DataBlockOf(r, s) ==
    IF r.found /\ r.id < s.data_blocks
    THEN [m |-> r.m, some |-> TRUE, block_id |-> s.data_start + r.id]
    ELSE [m |-> r.m, some |-> FALSE, block_id |-> 0]

AllocateDataBlock(m, s) == DataBlockOf(AllocateBmap(m, s.data_bmap_start, s.data_start), s)

\* Some(inode_lock), unless the thread stopped on the way.
Allocated(m, h) == [m |-> m, some |-> m.st = "ok", h |-> IF m.st = "ok" THEN h ELSE 0]

\* allocate_inode once the inode cache has answered with g: the new handle is
\* locked and its record initialized.
InitializeInode(g, type_) ==
    IF g.m.st # "ok" THEN [m |-> g.m, some |-> FALSE, h |-> 0]
    ELSE IF ~g.ok THEN [m |-> Fail(g.m, "panic"), some |-> FALSE, h |-> 0]
    ELSE Allocated(InitializeLoaded(UpdateDinode(g.m, g.h), g.h, type_), g.h)

\* FileSystem::allocate_inode: [m, some, h].
InodeOf(r, s, type_) ==
    IF ~r.found \/ r.id >= MaxInodeNum(s) THEN [m |-> r.m, some |-> FALSE, h |-> 0]
    ELSE InitializeInode(InodeCacheGet(r.m, s, r.id), type_)

AllocateInode(m, s, type_) ==
    InodeOf(AllocateBmap(m, s.inode_bmap_start, s.inode_start), s, type_)

\* clear_block once the entry is loaded: zeroed in the cache and written at once.
ClearLoaded(m, bid) ==
    IF m.st # "ok" THEN m
    ELSE BlockCacheSyncEntry(BlockCacheWrite(m, bid, "bytes", Zeros(BLOCK_SIZE)),
                             BlockCacheIndex(m.bc, bid))

\* clear_block
ClearBlock(m, bid) == ClearLoaded(BlockCacheGet(m, bid, {}), bid)

(***************************************************************************)
(* Inode record operations.                                                *)
(***************************************************************************)
\* The indirect arm of get_bid once the index block is loaded.
GetBidIndirect(m, dinode, idx) ==
    IF m.st # "ok" THEN [m |-> m, block_id |-> 0]
    ELSE [m |-> m,
          block_id |-> BlockCacheRead(m, dinode.indirect, "index")[idx - N_DIRECT + 1]]

\* DInode::get_bid: [m, block_id].
GetBid(m, dinode, idx) ==
    IF m.st # "ok" THEN [m |-> m, block_id |-> 0]
    ELSE IF idx >= MAX_BLOCKS_PER_INODE THEN [m |-> Fail(m, "panic"), block_id |-> 0]
    ELSE IF idx < N_DIRECT THEN [m |-> m, block_id |-> dinode.addresses[idx + 1]]
    ELSE GetBidIndirect(BlockCacheGet(m, dinode.indirect, {}), dinode, idx)

\* The indirect arm of set_bid once the index block is loaded: the slot is
\* written in the index block; the record itself is stored back unchanged.
SetBidIndirect(m, h, dinode, idx, block_id) ==
    IF m.st # "ok" THEN m
    ELSE StoreDinode(
             BlockCacheWrite(m, dinode.indirect, "index",
                 [BlockCacheRead(m, dinode.indirect, "index")
                     EXCEPT ![idx - N_DIRECT + 1] = block_id]),
             h, dinode)

\* DInode::set_bid on the record `dinode` of handle h, inside update_dinode
\* (the entry of the inode's block is held and locked meanwhile).
SetBid(m, h, dinode, idx, block_id) ==
    IF idx >= MAX_BLOCKS_PER_INODE THEN Fail(m, "panic")
    ELSE IF idx < N_DIRECT
    THEN StoreDinode(m, h, [dinode EXCEPT !.addresses[idx + 1] = block_id])
    ELSE IF dinode.indirect = m.heap[h].block_id THEN Fail(m, "hang")
    ELSE SetBidIndirect(BlockCacheGet(m, dinode.indirect, {m.heap[h].block_id}),
                        h, dinode, idx, block_id)

\* update_dinode with set_bid as its closure, once the inode's block is loaded.
SetBidLoaded(m, h, idx, block_id) ==
    IF m.st # "ok" THEN m ELSE SetBid(m, h, DinodeOnDisk(m, h), idx, block_id)

\* The closure resize_inode hands to update_dinode: DInode::set_bid on the
\* record of handle h.
UpdateDinodeSetBid(m, h, idx, block_id) ==
    IF m.st # "ok" THEN m
    ELSE SetBidLoaded(BlockCacheGet(m, m.heap[h].block_id, {}), h, idx, block_id)

\* Whether read_data's `cache.lock().get(self.get_bid(..), ..)` takes the
\* block-cache lock a second time: the receiver `cache.lock()` is evaluated
\* before the argument, and get_bid locks the cache for an indirect index.
ReadLocksCacheTwice(idx) == idx >= N_DIRECT

\* The bytes [at, at + incr) of a block.
CopyOut(data_block, at, incr) == SubSeq(data_block, at + 1, at + incr)

\* A block with buf[from + 1 .. from + incr] copied to [at, at + incr).
CopyIn(data_block, at, incr, buf, from) ==
    [i \in 1..BLOCK_SIZE |->
        IF i > at /\ i <= at + incr THEN buf[from + i - at] ELSE data_block[i]]

\* The bytes one round of the read/write loops transfers.
Incr(start, end, start_block) == MinOf(end, (start_block + 1) * BLOCK_SIZE) - start

\* The loop of DInode::read_data: [m, completed, buf].
RECURSIVE ReadDataLoop(_, _, _, _, _, _)
\* One round once the entry of the data block is loaded.
ReadDataLoaded(m, block_id, dinode, start, end, start_block, buf) ==
    IF m.st # "ok" THEN [m |-> m, completed |-> Len(buf), buf |-> buf]
    ELSE ReadDataLoop(m, dinode, start + Incr(start, end, start_block), end,
             start_block + 1,
             buf \o CopyOut(BlockCacheRead(m, block_id, "bytes"),
                            start % BLOCK_SIZE, Incr(start, end, start_block)))

\* One round once get_bid returned g.
ReadDataBlock(g, dinode, start, end, start_block, buf) ==
    ReadDataLoaded(BlockCacheGet(g.m, g.block_id, {}), g.block_id,
                   dinode, start, end, start_block, buf)

ReadDataLoop(m, dinode, start, end, start_block, buf) ==
    IF m.st # "ok" \/ start >= end
    THEN [m |-> m, completed |-> Len(buf), buf |-> buf]
    ELSE IF start_block < MAX_BLOCKS_PER_INODE /\ ReadLocksCacheTwice(start_block)
    THEN [m |-> Fail(m, "hang"), completed |-> Len(buf), buf |-> buf]
    ELSE ReadDataBlock(GetBid(m, dinode, start_block), dinode, start, end, start_block, buf)

\* DInode::read_data of n bytes at offset.  `self.size as usize - offset`
\* overflows for an offset past the size (a panic in a build with overflow
\* checks).
ReadData(m, dinode, offset, n) ==
    IF m.st # "ok" THEN [m |-> m, completed |-> 0, buf |-> << >>]
    ELSE IF offset > dinode.size
    THEN [m |-> Fail(m, "panic"), completed |-> 0, buf |-> << >>]
    ELSE ReadDataLoop(m, dinode, offset,
                      offset + MinOf(n, dinode.size - offset),
                      offset \div BLOCK_SIZE, << >>)

\* The loop of DInode::write_data: [m, completed].
RECURSIVE WriteDataLoop(_, _, _, _, _, _, _)
\* One round once the entry of the data block is loaded.
WriteDataLoaded(m, block_id, dinode, start_addr, end_addr, start_block, buf, completed) ==
    IF m.st # "ok" THEN [m |-> m, completed |-> completed]
    ELSE WriteDataLoop(
             BlockCacheWrite(m, block_id, "bytes",
                 CopyIn(BlockCacheRead(m, block_id, "bytes"),
                        start_addr % BLOCK_SIZE,
                        Incr(start_addr, end_addr, start_block), buf, completed)),
             dinode, start_addr + Incr(start_addr, end_addr, start_block), end_addr,
             start_block + 1, buf,
             completed + Incr(start_addr, end_addr, start_block))

\* One round once get_bid returned g.
WriteDataBlock(g, dinode, start_addr, end_addr, start_block, buf, completed) ==
    WriteDataLoaded(BlockCacheGet(g.m, g.block_id, {}), g.block_id,
                    dinode, start_addr, end_addr, start_block, buf, completed)

WriteDataLoop(m, dinode, start_addr, end_addr, start_block, buf, completed) ==
    IF m.st # "ok" \/ start_addr >= end_addr
    THEN [m |-> m, completed |-> completed]
    ELSE WriteDataBlock(GetBid(m, dinode, start_block),
                        dinode, start_addr, end_addr, start_block, buf, completed)

\* DInode::write_data.
WriteData(m, dinode, offset, buf) ==
    IF m.st # "ok" THEN [m |-> m, completed |-> 0]
    ELSE IF offset > dinode.size THEN [m |-> Fail(m, "panic"), completed |-> 0]
    ELSE WriteDataLoop(m, dinode, offset,
                       offset + MinOf(Len(buf), dinode.size - offset),
                       offset \div BLOCK_SIZE, buf, 0)

\* The width of usize, and a - b as a build without overflow checks
\* computes it.
UsizeBits == 16
WrappingSub(a, b) == (a - b + Pow2(UsizeBits)) % Pow2(UsizeBits)

\* DInode::read_data and DInode::write_data as a build without overflow
\* checks runs them: `self.size as usize - offset` wraps for an offset past
\* the size, and the loop runs over the whole buffer.
ReadDataUnchecked(m, dinode, offset, n) ==
    IF m.st # "ok" THEN [m |-> m, completed |-> 0, buf |-> << >>]
    ELSE ReadDataLoop(m, dinode, offset,
                      offset + MinOf(n, WrappingSub(dinode.size, offset)),
                      offset \div BLOCK_SIZE, << >>)

WriteDataUnchecked(m, dinode, offset, buf) ==
    IF m.st # "ok" THEN [m |-> m, completed |-> 0]
    ELSE WriteDataLoop(m, dinode, offset,
                       offset + MinOf(Len(buf), WrappingSub(dinode.size, offset)),
                       offset \div BLOCK_SIZE, buf, 0)

\* FileSystem::read_inode and FileSystem::write_inode on handle h.
ReadInode(m, h, offset, n) == ReadData(m, InodeDinode(m.heap[h]), offset, n)
WriteInode(m, h, offset, buf) == WriteData(m, InodeDinode(m.heap[h]), offset, buf)

(***************************************************************************)
(* resize_inode.                                                           *)
(***************************************************************************)
\* The allocation loop of resize_inode: [m, res].
RECURSIVE ResizeLoop(_, _, _, _, _, _)
\* One round once allocate_data_block returned a.
ResizeBlock(a, s, h, base_idx, i, needed_blocks) ==
    IF a.m.st # "ok" THEN [m |-> a.m, res |-> "Panic"]
    ELSE IF ~a.some THEN [m |-> a.m, res |-> "Exhausted"]
    ELSE ResizeLoop(
             UpdateDinodeSetBid(ClearBlock(a.m, a.block_id), h, base_idx + i, a.block_id),
             s, h, base_idx, i + 1, needed_blocks)

ResizeLoop(m, s, h, base_idx, i, needed_blocks) ==
    IF m.st # "ok" THEN [m |-> m, res |-> "Panic"]
    ELSE IF i >= needed_blocks THEN [m |-> m, res |-> "Ok"]
    ELSE ResizeBlock(AllocateDataBlock(m, s), s, h, base_idx, i, needed_blocks)

\* Ok(()), unless the thread stopped on the way.
Resized(m) == [m |-> m, res |-> IF m.st = "ok" THEN "Ok" ELSE "Panic"]

\* The end of resize_inode: set_inode_size(new_size), Ok(()).
ResizeDone(m, h, new_size) == Resized(SetInodeSize(m, h, new_size))

\* resize_inode after its allocation loop returned r.
ResizeAfterLoop(r, h, new_size) ==
    IF r.res # "Ok" THEN r ELSE ResizeDone(r.m, h, new_size)

\* The growing arm of resize_inode.
ResizeGrow(m, s, h, old_size, new_size) ==
    IF old_size % BLOCK_SIZE # 0
       /\ new_size - old_size <= BLOCK_SIZE - (old_size % BLOCK_SIZE)
    THEN ResizeDone(m, h, new_size)
    ELSE ResizeAfterLoop(
             ResizeLoop(m, s, h, (old_size + BLOCK_SIZE - 1) \div BLOCK_SIZE, 0,
                 ((IF old_size % BLOCK_SIZE # 0
                   THEN new_size - old_size - (BLOCK_SIZE - (old_size % BLOCK_SIZE))
                   ELSE new_size - old_size) + BLOCK_SIZE - 1) \div BLOCK_SIZE),
             h, new_size)

\* FileSystem::resize_inode: [m, res] with res "Ok", "TooLarge", "Exhausted"
\* or "Panic" (the thread did not return).
ResizeInode(m, s, h, new_size) ==
    IF m.st # "ok" THEN [m |-> m, res |-> "Panic"]
    ELSE IF new_size > CAPACITY_PER_INODE THEN [m |-> m, res |-> "TooLarge"]
    ELSE IF new_size > m.heap[h].size THEN ResizeGrow(m, s, h, m.heap[h].size, new_size)
    ELSE IF new_size < m.heap[h].size THEN [m |-> Fail(m, "panic"), res |-> "Panic"]
    ELSE [m |-> m, res |-> "Ok"]

(***************************************************************************)
(* Directory operations.                                                   *)
(***************************************************************************)
\* FileSystem::get_inode
GetInode(m, s, inum) == InodeCacheGet(m, s, inum)

\* The comparison of look_up: `dirent.name() == name`.
NameMatches(entry, name) == DirEntryName(entry) = name

\* look_up on a matching entry: get_inode(..).expect(..).
LookUpFound(g) ==
    IF g.m.st = "ok" /\ ~g.ok THEN [m |-> Fail(g.m, "panic"), some |-> FALSE, h |-> 0]
    ELSE [m |-> g.m, some |-> g.ok, h |-> g.h]

\* The scan of FileSystem::look_up from entry i: [m, some, h].
RECURSIVE LookUpFrom(_, _, _, _, _, _)
\* One entry of the scan: r is what read_inode returned for entry i.
LookUpEntry(r, s, h, name, i, files_num) ==
    IF r.m.st # "ok" THEN [m |-> r.m, some |-> FALSE, h |-> 0]
    ELSE IF r.completed # DIR_ENTRY_SIZE
    THEN [m |-> Fail(r.m, "panic"), some |-> FALSE, h |-> 0]
    ELSE IF NameMatches(r.buf, name)
    THEN LookUpFound(GetInode(r.m, s, DirEntryInum(r.buf)))
    ELSE LookUpFrom(r.m, s, h, name, i + 1, files_num)

LookUpFrom(m, s, h, name, i, files_num) ==
    IF m.st # "ok" \/ i >= files_num THEN [m |-> m, some |-> FALSE, h |-> 0]
    ELSE LookUpEntry(ReadInode(m, h, DIR_ENTRY_SIZE * i, DIR_ENTRY_SIZE),
                     s, h, name, i, files_num)

\* FileSystem::look_up on the locked handle h: [m, some, h].
LookUp(m, s, h, name) ==
    IF m.st # "ok" THEN [m |-> m, some |-> FALSE, h |-> 0]
    ELSE IF m.heap[h].type_ # InodeTypeDirectory
    THEN [m |-> Fail(m, "panic"), some |-> FALSE, h |-> 0]
    ELSE LookUpFrom(m, s, h, name, 0, m.heap[h].size \div DIR_ENTRY_SIZE)

\* Ok(new_inode_lock), unless the thread stopped on the way.
CreatedInode(m, new) ==
    [m |-> m, res |-> IF m.st = "ok" THEN "Ok" ELSE "Panic",
     h |-> IF m.st = "ok" THEN new ELSE 0]

\* create_inode after the entry was written: the new inode's link count.
CreateLink(w, new) ==
    IF w.m.st # "ok" THEN [m |-> w.m, res |-> "Panic", h |-> 0]
    ELSE IF w.completed # DIR_ENTRY_SIZE
    THEN [m |-> Fail(w.m, "panic"), res |-> "Panic", h |-> 0]
    ELSE CreatedInode(LinkLoaded(UpdateDinode(w.m, new), new), new)

\* create_inode after the directory was resized: the new inode is locked,
\* the entry is built (DirEntry::new) and written at the old end.
CreateEntry(r, h, new, name, base_offset) ==
    IF r.res # "Ok" THEN [m |-> r.m, res |-> r.res, h |-> 0]
    ELSE IF new = h THEN [m |-> Fail(r.m, "hang"), res |-> "Panic", h |-> 0]
    ELSE IF Len(name) > DIR_NAME_SIZE
    THEN [m |-> Fail(r.m, "panic"), res |-> "Panic", h |-> 0]
    ELSE CreateLink(WriteInode(r.m, h, base_offset,
                        DirEntryNew(name, r.m.heap[new].inode_num)), new)

\* create_inode after allocate_inode returned a.
CreateAllocated(a, s, h, name) ==
    IF a.m.st # "ok" THEN [m |-> a.m, res |-> "Panic", h |-> 0]
    ELSE IF ~a.some THEN [m |-> a.m, res |-> "InodeExhausted", h |-> 0]
    ELSE CreateEntry(ResizeInode(a.m, s, h, a.m.heap[h].size + DIR_ENTRY_SIZE),
                     h, a.h, name, a.m.heap[h].size)

\* create_inode after look_up returned l.
CreateLookedUp(l, s, h, name, type_) ==
    IF l.m.st # "ok" THEN [m |-> l.m, res |-> "Panic", h |-> 0]
    ELSE IF l.some THEN [m |-> l.m, res |-> "AlreadyExist", h |-> 0]
    ELSE CreateAllocated(AllocateInode(l.m, s, type_), s, h, name)

\* FileSystem::create_inode on the locked directory handle h: [m, res, h]
\* with res "Ok", "AlreadyExist", "InodeExhausted", "Exhausted", "TooLarge"
\* or "Panic".
CreateInode(m, s, h, name, type_) ==
    IF m.st # "ok" THEN [m |-> m, res |-> "Panic", h |-> 0]
    ELSE IF m.heap[h].type_ # InodeTypeDirectory
    THEN [m |-> Fail(m, "panic"), res |-> "Panic", h |-> 0]
    ELSE CreateLookedUp(LookUp(m, s, h, name), s, h, name, type_)

\* FileSystem::get_inode_from_path: [m, some, h].  `locked` are the handles
\* whose guards the enclosing calls still hold (each level keeps `ip` locked
\* while it recurses).
RECURSIVE GetInodeFromPath(_, _, _, _, _)
\* One level once look_up returned l for the first component.
Descend(l, s, rest, start_at, locked) ==
    IF l.m.st # "ok" \/ ~l.some THEN [m |-> l.m, some |-> FALSE, h |-> 0]
    ELSE GetInodeFromPath(l.m, s, rest, l.h, locked \cup {start_at})

GetInodeFromPath(m, s, path, start_at, locked) ==
    IF m.st # "ok" THEN [m |-> m, some |-> FALSE, h |-> 0]
    ELSE IF path = << >> THEN [m |-> m, some |-> TRUE, h |-> start_at]
    ELSE IF ~Skip(path).some THEN [m |-> m, some |-> FALSE, h |-> 0]
    ELSE IF start_at \in locked THEN [m |-> Fail(m, "hang"), some |-> FALSE, h |-> 0]
    ELSE IF m.heap[start_at].type_ # InodeTypeDirectory
    THEN [m |-> m, some |-> FALSE, h |-> 0]
    ELSE Descend(LookUp(m, s, start_at, Skip(path).name), s, Skip(path).rest,
                 start_at, locked)

(***************************************************************************)
(* Creating and opening a file system.                                     *)
(***************************************************************************)
EmptyMachine(dev) ==
    [dev |-> dev, bc |-> << >>, ic |-> << >>, heap |-> << >>, st |-> "ok"]

\* FileSystem::open with the magic number never checked.
OpenLoadedUnchecked(m, validate) ==
    IF m.st # "ok" THEN [m |-> m, ok |-> FALSE, sb |-> ZeroSuperBlock]
    ELSE [m |-> m, ok |-> TRUE, sb |-> BlockCacheRead(m, SUPER_BLOCK_LOC, "super")]

\* FileSystem::open once block 1 is loaded: the magic number is checked when
\* `validate` is set.
OpenLoaded(m, validate) ==
    IF m.st # "ok" THEN [m |-> m, ok |-> FALSE, sb |-> ZeroSuperBlock]
    ELSE IF SuperBlockIsValid(BlockCacheRead(m, SUPER_BLOCK_LOC, "super")) \/ ~validate
    THEN [m |-> m, ok |-> TRUE, sb |-> BlockCacheRead(m, SUPER_BLOCK_LOC, "super")]
    ELSE [m |-> m, ok |-> FALSE, sb |-> ZeroSuperBlock]

\* FileSystem::open: [m, ok, sb].  The new file system's block cache keeps
\* the entry of the super block; nothing is written.
Open(dev, validate) ==
    OpenLoaded(BlockCacheGet(EmptyMachine(dev), SUPER_BLOCK_LOC, {}), validate)

\* The layout FileSystem::create computes: the super block it hands to
\* init_fs.  u64 subtraction below zero is an overflow.
LayoutUnderflows(total_blocks, inode_blocks) == total_blocks < 2

InodeBmapBlocks(inode_blocks) == inode_blocks \div BLOCK_SIZE + 1

CreateAsserts(total_blocks, inode_blocks) ==
    total_blocks - 2 > InodeBmapBlocks(inode_blocks) + inode_blocks

\* The layout with `data_bmap_start = inode_start`: the inode blocks are
\* left out of the start of the data bitmap.
LayoutWithoutInodeBlocks(total_blocks, inode_blocks) ==
    LET inode_bmap_blocks == InodeBmapBlocks(inode_blocks)
        rest2 == total_blocks - 2 - (inode_bmap_blocks + inode_blocks)
        data_bmap_blocks == (rest2 \div BLOCK_SIZE) \div BITS_PER_BYTE + 1
        inode_start == SUPER_BLOCK_LOC + 1 + inode_bmap_blocks
    IN SuperBlockNew(total_blocks, SUPER_BLOCK_LOC + 1, inode_start, inode_blocks,
                     inode_start, inode_start + data_bmap_blocks,
                     rest2 - data_bmap_blocks)

\* The layout with the data bitmap sized by `rest_blocks / BLOCK_SIZE / 8`,
\* the `+ 1` left out.
LayoutRoundedDown(total_blocks, inode_blocks) ==
    LET inode_bmap_blocks == InodeBmapBlocks(inode_blocks)
        rest2 == total_blocks - 2 - (inode_bmap_blocks + inode_blocks)
        data_bmap_blocks == (rest2 \div BLOCK_SIZE) \div BITS_PER_BYTE
        inode_start == SUPER_BLOCK_LOC + 1 + inode_bmap_blocks
    IN SuperBlockNew(total_blocks, SUPER_BLOCK_LOC + 1, inode_start, inode_blocks,
                     inode_start + inode_blocks,
                     inode_start + inode_blocks + data_bmap_blocks,
                     rest2 - data_bmap_blocks)

Layout(total_blocks, inode_blocks) ==
    LET super_blocks == 1
        logging_blocks == 1
        rest1 == total_blocks - (super_blocks + logging_blocks)
        inode_bmap_blocks == InodeBmapBlocks(inode_blocks)
        inode_area == inode_bmap_blocks + inode_blocks
        rest2 == rest1 - inode_area
        data_bmap_blocks == (rest2 \div BLOCK_SIZE) \div BITS_PER_BYTE + 1
        data_blocks_num == rest2 - data_bmap_blocks
        inode_bmap_start == SUPER_BLOCK_LOC + super_blocks
        inode_start == inode_bmap_start + inode_bmap_blocks
        data_bmap_start == inode_start + inode_blocks
        data_start == data_bmap_start + data_bmap_blocks
    IN SuperBlockNew(total_blocks, inode_bmap_start, inode_start, inode_blocks,
                     data_bmap_start, data_start, data_blocks_num)

\* One round of the loop of init_fs that zeroes the blocks before the data
\* region, once the entry is loaded.
ClearCached(m, i) ==
    IF m.st # "ok" THEN m ELSE BlockCacheWrite(m, i, "bytes", Zeros(BLOCK_SIZE))

RECURSIVE ClearNonData(_, _, _)
ClearNonData(m, i, end) ==
    IF m.st # "ok" \/ i >= end THEN m
    ELSE ClearNonData(ClearCached(BlockCacheGet(m, i, {}), i), i + 1, end)

\* init_fs writes the super block into its entry.
WriteSuperBlock(m, s) ==
    IF m.st # "ok" THEN m ELSE BlockCacheWrite(m, SUPER_BLOCK_LOC, "super", s)

\* The first half of init_fs, on its own block cache: the blocks before the
\* data region are zeroed, the super block is written, the cache is flushed,
\* and the super block is read back.
InitFsWrite(dev, s) ==
    BlockCacheGet(
        BlockCacheFlush(
            WriteSuperBlock(
                BlockCacheGet(
                    ClearNonData(EmptyMachine(dev), s.inode_bmap_start, s.data_start),
                    SUPER_BLOCK_LOC, {}),
                s)),
        SUPER_BLOCK_LOC, {})

\* The end of init_fs: the root inode was allocated on a file system of its
\* own (a); that file system is dropped, then init_fs's own block cache c.
InitFsRoot(a, c) ==
    [dev |-> BlockCacheDropAll(BlockCacheDropAll(a.m.dev, a.m.bc), c.bc),
     ok |-> a.m.st = "ok" /\ a.some /\ a.m.heap[a.h].inode_num = 0]

\* init_fs allocating the root inode as a file.
InitFsOpenedAsFile(o, c) ==
    IF ~o.ok THEN [dev |-> c.dev, ok |-> FALSE]
    ELSE InitFsRoot(AllocateInode(o.m, o.sb, InodeTypeFile), c)

\* init_fs after FileSystem::open(dev, true) returned o.
InitFsOpened(o, c) ==
    IF ~o.ok THEN [dev |-> c.dev, ok |-> FALSE]
    ELSE InitFsRoot(AllocateInode(o.m, o.sb, InodeTypeDirectory), c)

\* init_fs after its first half left its block cache as c.
InitFsWritten(c, s) ==
    IF c.st # "ok" \/ BlockCacheRead(c, SUPER_BLOCK_LOC, "super") # s
    THEN [dev |-> c.dev, ok |-> FALSE]
    ELSE InitFsOpened(Open(c.dev, TRUE), c)

\* FileSystem::init_fs: [dev, ok]: the device after init_fs has returned
\* and its block caches have been dropped, and whether it returned the root.
InitFs(dev, s) == InitFsWritten(InitFsWrite(dev, s), s)

\* FileSystem::create after init_fs returned i.
CreateInitialized(i) ==
    IF ~i.ok
    THEN [m |-> Fail(EmptyMachine(i.dev), "panic"), ok |-> FALSE, sb |-> ZeroSuperBlock]
    ELSE Open(i.dev, TRUE)

\* FileSystem::create: [m, ok, sb].
Create(dev, total_blocks, inode_blocks) ==
    IF LayoutUnderflows(total_blocks, inode_blocks)
       \/ ~CreateAsserts(total_blocks, inode_blocks)
    THEN [m |-> Fail(EmptyMachine(dev), "panic"), ok |-> FALSE, sb |-> ZeroSuperBlock]
    ELSE CreateInitialized(InitFs(dev, Layout(total_blocks, inode_blocks)))

\* FileSystem::root: [m, ok, h]; the unwrap panics when get_inode fails.
RootUnwrap(g) ==
    IF g.m.st = "ok" /\ ~g.ok THEN [m |-> Fail(g.m, "panic"), ok |-> FALSE, h |-> 0]
    ELSE g

Root(m, s) == RootUnwrap(GetInode(m, s, 0))

(***************************************************************************)
(* The state.                                                              *)
(*   dev          the block device                                         *)
(*   sb           FileSystem::sb, the copy of the super block              *)
(*   block_cache  FileSystem::block_cache                                  *)
(*   inode_cache  FileSystem::inode_cache                                  *)
(*   heap         the Arc<Mutex<Inode>> cells that are still referenced    *)
(*   held         the handles the caller holds                             *)
(*   st           "ok", or "panic" / "hang" once the thread has panicked   *)
(*                or spins for ever                                        *)
(*   mounted      whether a FileSystem value exists                        *)
(*   last         the last operation, its arguments and what it returned   *)
(*   lastWrite    per inode number, the most recent write_inode that lay   *)
(*                inside the inode and the size the record was last given  *)
(*                (history, for the round-trip and persistence claims)     *)
(*   created      the (directory inode, name, inode, type) of every        *)
(*                create_inode that returned Ok (history)                  *)
(*   phase        where the image stands: "fresh" from create, "used",     *)
(*                "dropped", "reopened" / "opened", or the step of the     *)
(*                builder / kernel scenario                                *)
(*   nops         the number of operations the caller has made             *)
(*   threads      per thread, the call it is in, the lock operations of    *)
(*                that call, the position it has reached and the locks it  *)
(*                holds, oldest first (for the locking discipline; every   *)
(*                thread is idle where a single caller is followed)        *)
(***************************************************************************)
VARIABLES dev, sb, block_cache, inode_cache, heap, held, st, mounted,
          last, lastWrite, created, phase, nops, threads, bmap

vars == <<dev, sb, block_cache, inode_cache, heap, held, st, mounted,
          last, lastWrite, created, phase, nops, threads, bmap>>

\* A BitmapBlock of its own, as a caller constructs one: its `inner` bytes,
\* the bytes it started with, the indices allocate returned that were not
\* freed since, the number of allocate calls, and whether a free of an
\* index that allocate had not returned took place.
BitmapOf(inner) ==
    [inner |-> inner, start |-> inner, out |-> {}, allocs |-> 0, other |-> FALSE]
NoBitmap == BitmapOf(Zeros(BLOCK_SIZE))

\* The threads that call into the file system at the same time.
NThreads == 2
Threads == 1..NThreads

\* A thread that is in no call.
NoCall == [op |-> "none", h |-> 0, name |-> << >>, size |-> 0, offset |-> 0]
Idle == [call |-> NoCall, prog |-> << >>, pc |-> 1, holds |-> << >>]
NoThreads == [t \in Threads |-> Idle]

\* Bounds of the explored scenarios: the handles a caller keeps at a time,
\* the operations it makes, and the layout handed to FileSystem::create.
MaxHeld == 3
MaxOps == 5
TotalBlocks == 14
InodeBlocks == 2

\* The machine the next operation starts from.
Machine ==
    [dev |-> dev, bc |-> block_cache, ic |-> inode_cache, heap |-> heap, st |-> st]

\* The handles that stay alive: those the caller keeps and those the inode
\* cache refers to.
Live(m, keep) == keep \cup {m.ic[i].h : i \in 1..Len(m.ic)}

\* The state after an operation that left machine m, the caller keeping `keep`.
Commit(m, keep) ==
    /\ dev' = m.dev
    /\ block_cache' = m.bc
    /\ inode_cache' = m.ic
    /\ heap' = [h \in Live(m, keep) \cap DOMAIN m.heap |-> m.heap[h]]
    /\ held' = keep \cap DOMAIN m.heap
    /\ st' = m.st

\* The caller keeps a returned handle.
Keep(h) == held \cup {h}

NoWrite == [some |-> FALSE, offset |-> 0, buf |-> << >>, size |-> 0]

\* The state in which FileSystem::create(dev0, total_blocks, inode_blocks)
\* has returned a file system.
Created(dev0, total_blocks, inode_blocks) ==
    LET c == Create(dev0, total_blocks, inode_blocks) IN
    /\ c.ok
    /\ dev = c.m.dev
    /\ sb = c.sb
    /\ block_cache = c.m.bc
    /\ inode_cache = c.m.ic
    /\ heap = c.m.heap
    /\ held = {}
    /\ st = "ok"
    /\ mounted = TRUE

ZeroDevice == [b \in 0..(DevBlocks - 1) |-> ZeroBlock]


\* The inode numbers history is kept for.
InodeNums == 0..(InodeBlocks * INODES_PER_BLOCK)

\* File names and what callers write: "a", "b", "c".
NameA == <<97>>
NameB == <<98>>
NameC == <<99>>
Names == {NameA, NameB, NameC}
Types == {InodeTypeFile, InodeTypeDirectory}

\* The result of an operation that may not have returned.
Outcome(m, res) == IF m.st = "ok" THEN res ELSE m.st

Ready == st = "ok" /\ mounted /\ nops < MaxOps

(***************************************************************************)
(* What an observer reads off the file system without going through its    *)
(* operations: records and block mappings as seen through the block cache. *)
(***************************************************************************)
\* The on-disk record of inode inum (SuperBlock::find_inode, then the slot).
RecordIn(d, bc, s, inum) ==
    ViewAs(Through(d, bc, FindInode(s, inum).block_id), "inodes")
        [SlotOf(FindInode(s, inum).offset)]

RecordOf(inum) == RecordIn(dev, block_cache, sb, inum)

\* The blocks a size takes.
BlocksOf(size) == (size + BLOCK_SIZE - 1) \div BLOCK_SIZE

\* DInode::get_bid read off the state: a direct address, or the slot of the
\* index block the record's `indirect` names.
BidOf(dinode, idx) ==
    IF idx < N_DIRECT THEN dinode.addresses[idx + 1]
    ELSE ViewAs(Through(dev, block_cache, dinode.indirect), "index")[idx - N_DIRECT + 1]

\* The block mapping of inode inum: the block ids at the inner indices its
\* size covers.
MappingOf(inum) ==
    [k \in 1..MinOf(BlocksOf(RecordOf(inum).size), MAX_BLOCKS_PER_INODE) |->
        BidOf(RecordOf(inum), k - 1)]

\* The data region of the layout.
DataRegion == sb.data_start..(sb.data_start + sb.data_blocks - 1)

\* The byte at position pos of inode inum, read off the block mapped there.
ByteOf(inum, pos) ==
    ViewAs(Through(dev, block_cache, MappingOf(inum)[(pos \div BLOCK_SIZE) + 1]),
           "bytes")[(pos % BLOCK_SIZE) + 1]

\* What reading inode inum gives: its size, its block mapping and its bytes.
ContentOf(inum) ==
    [size |-> RecordOf(inum).size, mapping |-> MappingOf(inum),
     bytes |-> [p \in 0..(MinOf(RecordOf(inum).size, CAPACITY_PER_INODE) - 1) |-> ByteOf(inum, p)]]

\* The contents of the valid inodes other than inum.
OthersOf(inum) ==
    [j \in {i \in InodeNums : RecordOf(i).type_ # InodeTypeInvalid /\ i # inum} |-> ContentOf(j)]

\* The size / DIR_ENTRY_SIZE directory entries of inode inum, each as its
\* DIR_ENTRY_SIZE bytes.
EntriesOf(inum) ==
    [e \in 1..(RecordOf(inum).size \div DIR_ENTRY_SIZE) |->
        [i \in 1..DIR_ENTRY_SIZE |-> ByteOf(inum, (e - 1) * DIR_ENTRY_SIZE + i - 1)]]

\* The blocks of the inode bitmap and of the data bitmap.
BitmapBlocks ==
    (sb.inode_bmap_start..(sb.inode_start - 1)) \cup (sb.data_bmap_start..(sb.data_start - 1))

\* The bits set in the bitmap blocks start..(end - 1), numbered as
\* allocate_bmap numbers them.
BitsOfRange(start, end) ==
    UNION {{(b - start) * BITS_PER_BYTE * BLOCK_SIZE + k :
               k \in BitmapBits(ViewAs(Through(dev, block_cache, b), "bytes"))} :
           b \in start..(end - 1)}

\* The bitmap blocks hold bytes (or nothing at all).
BitmapsAreBytes ==
    \A b \in BitmapBlocks :
        Through(dev, block_cache, b).kind = "bytes"

\* The contents of both bitmaps.
BitmapsNow == [b \in BitmapBlocks |-> Through(dev, block_cache, b)]

\* The data blocks no bit of the data bitmap stands for yet.
FreeDataBlocks ==
    Cardinality((0..(sb.data_blocks - 1)) \ BitsOfRange(sb.data_bmap_start, sb.data_start))

\* The inode numbers of the layout's inode region.
RegionInodes == 0..(MaxInodeNum(sb) - 1)

\* The contents of the blocks of the inode region.
InodeRegionNow ==
    [b \in sb.inode_start..(sb.data_bmap_start - 1) |-> Through(dev, block_cache, b)]

\* The entries of every directory of the inode region.
DirectoriesNow ==
    [d \in {i \in RegionInodes : RecordOf(i).type_ = InodeTypeDirectory} |-> EntriesOf(d)]

\* What a call on directory inum must leave alone when it changes nothing:
\* the directory's record, its entries, and both bitmaps.
Snapshot(inum) ==
    [record |-> RecordOf(inum), entries |-> EntriesOf(inum),
     bitmaps |-> [b \in BitmapBlocks |-> Through(dev, block_cache, b)]]

(***************************************************************************)
(* The calls of a single-threaded caller.  The caller locks the handle it  *)
(* passes (`inode.lock()`) for the duration of the call.                   *)
(***************************************************************************)
\* fs.root()
DoRoot ==
    /\ Ready
    /\ LET r == Root(Machine, sb) IN
       /\ Commit(r.m, IF r.ok /\ Cardinality(held) < MaxHeld THEN Keep(r.h) ELSE held)
       /\ last' = [op |-> "root", res |-> Outcome(r.m, IF r.ok THEN "Some" ELSE "None"),
                   rinum |-> IF r.ok THEN r.m.heap[r.h].inode_num ELSE 0,
                   rtype |-> IF r.ok THEN r.m.heap[r.h].type_ ELSE InodeTypeInvalid,
                   rsize |-> IF r.ok THEN r.m.heap[r.h].size ELSE 0]
    /\ nops' = nops + 1
    /\ UNCHANGED <<bmap, threads, sb, mounted, lastWrite, created, phase>>

\* fs.look_up(&dir.lock(), name)
DoLookUp(d, name) ==
    /\ Ready
    /\ d \in held /\ heap[d].type_ = InodeTypeDirectory
    /\ LET r == LookUp(Machine, sb, d, name) IN
       /\ Commit(r.m, IF r.some /\ Cardinality(held) < MaxHeld THEN Keep(r.h) ELSE held)
       /\ last' = [op |-> "look_up", h |-> d, dir |-> heap[d].inode_num, name |-> name,
                   res |-> Outcome(r.m, IF r.some THEN "Some" ELSE "None"),
                   rinum |-> IF r.some THEN r.m.heap[r.h].inode_num ELSE 0,
                   rtype |-> IF r.some THEN r.m.heap[r.h].type_ ELSE InodeTypeInvalid,
                   rsize |-> IF r.some THEN r.m.heap[r.h].size ELSE 0,
                   before |-> Snapshot(heap[d].inode_num)]
    /\ nops' = nops + 1
    /\ UNCHANGED <<bmap, threads, sb, mounted, lastWrite, created, phase>>

\* fs.create_inode(&mut dir.lock(), name, type_)
DoCreateInode(d, name, type_) ==
    /\ Ready
    /\ d \in held /\ heap[d].type_ = InodeTypeDirectory
    /\ LET r == CreateInode(Machine, sb, d, name, type_)
           ok == r.m.st = "ok" /\ r.res = "Ok"
       IN
       /\ Commit(r.m, IF ok /\ Cardinality(held) < MaxHeld THEN Keep(r.h) ELSE held)
       /\ last' = [op |-> "create_inode", h |-> d, dir |-> heap[d].inode_num,
                   name |-> name, type_ |-> type_, res |-> Outcome(r.m, r.res),
                   rinum |-> IF ok THEN r.m.heap[r.h].inode_num ELSE 0,
                   existed |-> \E c \in created :
                                  c.dir = heap[d].inode_num /\ c.name = name,
                   before |-> Snapshot(heap[d].inode_num),
                   inodes |-> InodeRegionNow, dirs |-> DirectoriesNow]
       /\ created' = IF ok
                     THEN created \cup {[dir |-> heap[d].inode_num, name |-> name,
                                         inum |-> r.m.heap[r.h].inode_num, type_ |-> type_]}
                     ELSE created
    /\ phase' = IF phase = "fresh" THEN "used" ELSE phase
    /\ nops' = nops + 1
    /\ UNCHANGED <<bmap, threads, sb, mounted, lastWrite>>

\* A handle goes out of scope.
DoRelease(h) ==
    /\ Ready
    /\ h \in held
    /\ Commit(Machine, held \ {h})
    /\ last' = [op |-> "release"]
    /\ nops' = nops + 1
    /\ UNCHANGED <<bmap, threads, sb, mounted, lastWrite, created, phase>>

\* Paths handed to get_inode_from_path: "/a", "a/b", "/a//b/c", "c/", "/", "".
Paths ==
    {<<SLASH, 97>>, <<97, SLASH, 98>>, <<SLASH, 97, SLASH, SLASH, 98, SLASH, 99>>,
     <<99, SLASH>>, <<SLASH>>, << >>}

\* fs.get_inode_from_path(path, &start_at)
DoGetInodeFromPath(path, start_at) ==
    /\ Ready
    /\ start_at \in held
    /\ LET r == GetInodeFromPath(Machine, sb, path, start_at, {}) IN
       /\ Commit(r.m, IF r.some /\ Cardinality(held) < MaxHeld THEN Keep(r.h) ELSE held)
       /\ last' = [op |-> "get_inode_from_path", h |-> start_at,
                   start |-> heap[start_at].inode_num, path |-> path,
                   res |-> Outcome(r.m, IF r.some THEN "Some" ELSE "None"),
                   rinum |-> IF r.some THEN r.m.heap[r.h].inode_num ELSE 0,
                   rh |-> r.h]
    /\ nops' = nops + 1
    /\ UNCHANGED <<bmap, threads, sb, mounted, lastWrite, created, phase>>

NoHistory ==
    /\ last = [op |-> "none"]
    /\ lastWrite = [i \in InodeNums |-> NoWrite]
    /\ created = {}
    /\ phase = "none"
    /\ nops = 0
    /\ threads = NoThreads
    /\ bmap = NoBitmap

(***************************************************************************)
(* The name space: a file system fresh from FileSystem::create, and a      *)
(* caller that obtains the root, creates, looks up and releases handles.   *)
(***************************************************************************)
Init ==
    /\ Created(ZeroDevice, TotalBlocks, InodeBlocks)
    /\ NoHistory

Next ==
    \/ DoRoot
    \/ \E d \in held, name \in Names : DoLookUp(d, name)
    \/ \E d \in held, name \in Names, type_ \in Types : DoCreateInode(d, name, type_)
    \/ \E h \in held : DoRelease(h)

Spec == Init /\ [][Next]_vars

(***************************************************************************)
(* Path resolution: the same file system, and a caller that obtains the    *)
(* root, creates and resolves paths.                                       *)
(***************************************************************************)
NextPath ==
    \/ DoRoot
    \/ \E d \in held, name \in Names, type_ \in Types : DoCreateInode(d, name, type_)
    \/ \E path \in Paths, start_at \in held : DoGetInodeFromPath(path, start_at)

SpecPath == Init /\ [][NextPath]_vars

(***************************************************************************)
(* Properties of the name space (C5 and C6 checked under Spec, C7 under     *)
(* SpecPath).                                                              *)
(***************************************************************************)
\* C5: duplicate create.  If create_inode(d, n, T) succeeded, every later
\* create_inode(d, n, T') returns AlreadyExist and leaves d's size, d's
\* entries, the inode bitmap and the data bitmap unchanged.
C5_DuplicateCreate ==
    (last.op = "create_inode" /\ last.existed) =>
        /\ last.res = "AlreadyExist"
        /\ Snapshot(last.dir) = last.before

\* A second create of a name returned AlreadyExist and changed nothing.
C5_Refused ==
    /\ last.op = "create_inode" /\ last.existed
    /\ last.res = "AlreadyExist"
    /\ Snapshot(last.dir) = last.before

\* The entries of a snapshot that carry a name.
Matching(entries, name) ==
    {e \in DOMAIN entries : DirEntryName(entries[e]) = name}

\* C6: lookup consistency.  look_up(d, n) returns Some(h) exactly when one
\* of the size / DIR_ENTRY_SIZE entries of d has name n, and then h's inode
\* number is the one stored in that entry; it returns None exactly when no
\* entry has that name; it changes neither d nor any bitmap.
C6_LookupConsistency ==
    last.op = "look_up" =>
        /\ last.res \in {"Some", "None"}
        /\ (last.res = "Some") = (Matching(last.before.entries, last.name) # {})
        /\ last.res = "Some" =>
              \E e \in Matching(last.before.entries, last.name) :
                  last.rinum = DirEntryInum(last.before.entries[e])
        /\ Snapshot(last.dir) = last.before

\* look_up found a name in a directory of several entries.
C6_Found ==
    /\ last.op = "look_up" /\ last.res = "Some"
    /\ Len(last.before.entries) > 1
    /\ \E e \in Matching(last.before.entries, last.name) :
          last.rinum = DirEntryInum(last.before.entries[e])

\* The non-empty components of a path, left to right.
RECURSIVE Components(_)
Components(path) ==
    IF path = << >> THEN << >>
    ELSE IF Head(path) = SLASH THEN Components(Tail(path))
    ELSE LET n == Min({i \in 1..(Len(path) + 1) : i = Len(path) + 1 \/ path[i] = SLASH})
         IN <<SubSeq(path, 1, n - 1)>> \o Components(SubSeq(path, n, Len(path)))

\* The inode the components lead to from inode inum, by the entries of the
\* directories on the way: [some, inum].
RECURSIVE Resolve(_, _)
Resolve(inum, comps) ==
    IF comps = << >> THEN [some |-> TRUE, inum |-> inum]
    ELSE IF RecordOf(inum).type_ # InodeTypeDirectory
            \/ Matching(EntriesOf(inum), Head(comps)) = {}
    THEN [some |-> FALSE, inum |-> 0]
    ELSE Resolve(DirEntryInum(EntriesOf(inum)[Min(Matching(EntriesOf(inum), Head(comps)))]),
                 Tail(comps))

\* The inodes create_inode returned for the chain of components under inum.
RECURSIVE CreatedAt(_, _)
CreatedAt(inum, comps) ==
    IF comps = << >> THEN {inum}
    ELSE UNION {CreatedAt(c.inum, Tail(comps)) :
                  c \in {x \in created : x.dir = inum /\ x.name = Head(comps)}}

\* C7: path resolution.  get_inode_from_path returns start for the empty
\* path; a path with at least one component is resolved component by
\* component with look_up, whatever its leading or repeated '/', and yields
\* None as soon as a component is missing or the inode reached is not a
\* directory; after nested creates the path of the created names resolves
\* to the inode create_inode returned.
C7_PathResolution ==
    last.op = "get_inode_from_path" =>
        /\ last.path = << >> => (last.res = "Some" /\ last.rh = last.h)
        /\ Components(last.path) # << >> =>
              /\ last.res \in {"Some", "None"}
              /\ (last.res = "Some") = Resolve(last.start, Components(last.path)).some
              /\ last.res = "Some" =>
                    last.rinum = Resolve(last.start, Components(last.path)).inum
              /\ \A i \in CreatedAt(last.start, Components(last.path)) :
                    last.res = "Some" /\ last.rinum = i

\* A path of three components with repeated separators resolved to the
\* inode created for it.
C7_NestedResolved ==
    /\ last.op = "get_inode_from_path" /\ last.res = "Some"
    /\ Len(Components(last.path)) = 3 /\ Len(last.path) > 5
    /\ last.rinum \in CreatedAt(last.start, Components(last.path))

(***************************************************************************)
(* File contents: the caller resizes, writes and reads the files it holds, *)
(* drops the file system and opens the device again.                       *)
(***************************************************************************)
\* Sizes handed to resize_inode: inside the first block, past the direct
\* blocks, the capacity of an inode, and one byte more.
Sizes == {BLOCK_SIZE - 1, N_DIRECT * BLOCK_SIZE + 1, CAPACITY_PER_INODE, CAPACITY_PER_INODE + 1}

\* What write_inode is called with: inside block 0, across the end of a
\* file of BLOCK_SIZE - 1 bytes, and across the last direct block and the
\* first indirect one.
Writes ==
    {[offset |-> 0, buf |-> <<1, 2>>],
     [offset |-> BLOCK_SIZE - 2, buf |-> <<5, 6>>],
     [offset |-> N_DIRECT * BLOCK_SIZE - 1, buf |-> <<3, 4>>]}

\* fs.resize_inode(&mut inode.lock(), new_size)
DoResize(h, new_size) ==
    /\ Ready
    /\ h \in held /\ heap[h].type_ = InodeTypeFile
    /\ LET r == ResizeInode(Machine, sb, h, new_size) IN
       /\ Commit(r.m, held)
       /\ last' = [op |-> "resize_inode", h |-> h, inum |-> heap[h].inode_num,
                   old_size |-> heap[h].size, new_size |-> new_size,
                   disk_size |-> RecordOf(heap[h].inode_num).size,
                   before |-> MappingOf(heap[h].inode_num),
                   bitmaps |-> BitmapsNow, free |-> FreeDataBlocks,
                   others |-> OthersOf(heap[h].inode_num),
                   res |-> Outcome(r.m, r.res)]
       /\ lastWrite' = [lastWrite EXCEPT ![heap[h].inode_num].size =
              IF r.m.st = "ok"
              THEN RecordIn(r.m.dev, r.m.bc, sb, heap[h].inode_num).size ELSE @]
    /\ nops' = nops + 1
    /\ UNCHANGED <<bmap, threads, sb, mounted, created, phase>>

\* fs.write_inode(&inode.lock(), offset, buf), in a build with overflow
\* checks or in one without.
DoWrite(h, w, checks) ==
    /\ Ready
    /\ h \in held /\ heap[h].type_ = InodeTypeFile
    /\ LET r == IF checks THEN WriteInode(Machine, h, w.offset, w.buf)
                ELSE WriteDataUnchecked(Machine, InodeDinode(heap[h]), w.offset, w.buf)
       IN
       /\ Commit(r.m, held)
       /\ last' = [op |-> "write_inode", h |-> h, inum |-> heap[h].inode_num,
                   offset |-> w.offset, buf |-> w.buf,
                   others |-> OthersOf(heap[h].inode_num),
                   size |-> heap[h].size, dev |-> dev, block_cache |-> block_cache,
                   res |-> Outcome(r.m, "Returned"), completed |-> r.completed]
       /\ lastWrite' = [lastWrite EXCEPT ![heap[h].inode_num] =
              IF r.m.st = "ok" /\ w.offset + Len(w.buf) <= heap[h].size
              THEN [some |-> TRUE, offset |-> w.offset, buf |-> w.buf, size |-> @.size]
              ELSE [NoWrite EXCEPT !.size = lastWrite[heap[h].inode_num].size]]
    /\ nops' = nops + 1
    /\ UNCHANGED <<bmap, threads, sb, mounted, created, phase>>

\* fs.read_inode(&inode.lock(), offset, &mut buf) with a buffer of n bytes,
\* in a build with overflow checks or in one without.
DoRead(h, offset, n, checks) ==
    /\ Ready
    /\ h \in held /\ heap[h].type_ = InodeTypeFile
    /\ LET r == IF checks THEN ReadInode(Machine, h, offset, n)
                ELSE ReadDataUnchecked(Machine, InodeDinode(heap[h]), offset, n)
       IN
       /\ Commit(r.m, held)
       /\ last' = [op |-> "read_inode", h |-> h, inum |-> heap[h].inode_num,
                   offset |-> offset, n |-> n,
                   size |-> heap[h].size, dev |-> dev, block_cache |-> block_cache,
                   res |-> Outcome(r.m, "Returned"), completed |-> r.completed,
                   buf |-> r.buf]
    /\ nops' = nops + 1
    /\ UNCHANGED <<bmap, threads, sb, mounted, lastWrite, created, phase>>

\* Every handle is released and the last Arc<FileSystem> is dropped: Drop
\* for BlockCache runs on every entry of the block cache.
DoDrop ==
    /\ st = "ok" /\ mounted
    /\ dev' = BlockCacheDropAll(dev, block_cache)
    /\ block_cache' = << >>
    /\ inode_cache' = << >>
    /\ heap' = << >>
    /\ held' = {}
    /\ mounted' = FALSE
    /\ last' = [op |-> "drop",
                view |-> [b \in DOMAIN dev |-> Through(dev, block_cache, b)]]
    /\ phase' = "dropped"
    /\ UNCHANGED <<bmap, threads, sb, st, lastWrite, created, nops>>

\* FileSystem::open(dev, validate)
DoOpen(validate) ==
    /\ st = "ok" /\ ~mounted
    /\ LET o == Open(dev, validate) IN
       /\ dev' = o.m.dev
       /\ block_cache' = IF o.ok THEN o.m.bc ELSE << >>
       /\ sb' = IF o.ok THEN o.sb ELSE sb
       /\ st' = o.m.st
       /\ mounted' = o.ok
       /\ last' = [op |-> "open", validate |-> validate, before |-> dev,
                   res |-> Outcome(o.m, IF o.ok THEN "Ok" ELSE "Invalid")]
       /\ phase' = IF ~o.ok THEN phase ELSE IF validate THEN "reopened" ELSE "opened"
    /\ UNCHANGED <<bmap, threads, inode_cache, heap, held, lastWrite, created, nops>>

\* The state after create, root() and create_inode of the files "a" and "b"
\* in the root, the caller holding the root and "a".
FileSetupB(b, s, root, a) ==
    [m |-> b.m, sb |-> s, held |-> {root, a},
     created |-> {[dir |-> 0, name |-> NameA, inum |-> b.m.heap[a].inode_num,
                   type_ |-> InodeTypeFile],
                  [dir |-> 0, name |-> NameB, inum |-> b.m.heap[b.h].inode_num,
                   type_ |-> InodeTypeFile]}]
FileSetupA(a, s, root) ==
    FileSetupB(CreateInode(a.m, s, root, NameB, InodeTypeFile), s, root, a.h)
FileSetupRoot(r, s) ==
    FileSetupA(CreateInode(r.m, s, r.h, NameA, InodeTypeFile), s, r.h)
FileSetupCreated(c) == FileSetupRoot(Root(c.m, c.sb), c.sb)
FileSetup == FileSetupCreated(Create(ZeroDevice, TotalBlocks, InodeBlocks))

InitFile ==
    /\ dev = FileSetup.m.dev
    /\ sb = FileSetup.sb
    /\ block_cache = FileSetup.m.bc
    /\ inode_cache = FileSetup.m.ic
    /\ heap = [h \in Live(FileSetup.m, FileSetup.held) |-> FileSetup.m.heap[h]]
    /\ held = FileSetup.held
    /\ st = FileSetup.m.st
    /\ mounted = TRUE
    /\ last = [op |-> "none"]
    /\ lastWrite = [i \in InodeNums |->
                       [NoWrite EXCEPT !.size =
                           RecordIn(FileSetup.m.dev, FileSetup.m.bc, FileSetup.sb, i).size]]
    /\ created = FileSetup.created
    /\ phase = "none"
    /\ nops = 0
    /\ threads = NoThreads
    /\ bmap = NoBitmap

NextFile ==
    \/ DoRoot
    \/ \E d \in held, name \in {NameA, NameB} : DoLookUp(d, name)
    \/ \E h \in held, new_size \in Sizes : DoResize(h, new_size)
    \/ \E h \in held, w \in Writes, checks \in BOOLEAN : DoWrite(h, w, checks)
    \/ \E h \in held, w \in Writes, checks \in BOOLEAN :
          DoRead(h, w.offset, Len(w.buf), checks)
    \/ DoDrop
    \/ \E validate \in BOOLEAN : DoOpen(validate)

SpecFile == InitFile /\ [][NextFile]_vars

(***************************************************************************)
(* Properties of file contents (checked under SpecFile).                   *)
(***************************************************************************)
\* The last call was read_inode over the range of the last write to the
\* same inode.
ReadOfLastWrite ==
    /\ last.op = "read_inode"
    /\ lastWrite[last.inum].some
    /\ lastWrite[last.inum].offset = last.offset
    /\ Len(lastWrite[last.inum].buf) = last.n

\* C1: read-after-write round trip.  After write_inode(i, offset, u) with
\* offset + |u| <= size(i) and no later write to i, read_inode(i, offset, v)
\* with |v| = |u| returns |u| and v = u, also for ranges that span blocks
\* and for blocks reached through the indirect index block.
C1_ReadAfterWrite ==
    ReadOfLastWrite =>
        /\ last.res = "Returned"
        /\ last.completed = last.n
        /\ last.buf = lastWrite[last.inum].buf

\* A read over a written range inside the direct blocks returned the
\* written bytes.
C1_DirectRoundTrip ==
    /\ ReadOfLastWrite
    /\ last.res = "Returned"
    /\ last.offset + last.n <= N_DIRECT * BLOCK_SIZE
    /\ last.buf = lastWrite[last.inum].buf

\* The last call was look_up of a name created in that directory.
LookUpOfCreated ==
    /\ last.op = "look_up"
    /\ \E c \in created : c.dir = last.dir /\ c.name = last.name

\* C2: persistence.  Once every handle is released and the file system is
\* dropped, every block modified through the block cache is on the device;
\* after re-opening with validation every name created before resolves by
\* look_up to an inode of the same type and size, and read_inode returns the
\* bytes last written.
C2_Persistence ==
    /\ last.op = "drop" => \A b \in DOMAIN dev : dev[b] = last.view[b]
    /\ (phase = "reopened" /\ LookUpOfCreated) =>
           /\ last.res = "Some"
           /\ \E c \in created :
                 /\ c.dir = last.dir /\ c.name = last.name
                 /\ last.rinum = c.inum
                 /\ last.rtype = c.type_
                 /\ last.rsize = lastWrite[c.inum].size
    /\ (phase = "reopened" /\ ReadOfLastWrite) =>
           /\ last.res = "Returned"
           /\ last.completed = last.n
           /\ last.buf = lastWrite[last.inum].buf

\* After a drop and a validated open, a file written before the drop read
\* back the written bytes from its direct blocks.
C2_DirectSurvives ==
    /\ phase = "reopened"
    /\ C1_DirectRoundTrip

\* The inodes whose record is in use.
ValidInodes == {i \in InodeNums : RecordOf(i).type_ # InodeTypeInvalid}

\* C3: address uniqueness.  No data block id appears in the block mapping
\* (direct addresses or indirect index entries) of two distinct valid
\* inodes, nor twice in the mapping of one inode, also when two or more
\* inodes each grow past the direct blocks.
C3_AddressUniqueness ==
    st = "ok" =>
        \A i \in ValidInodes, j \in ValidInodes :
            \A k \in DOMAIN MappingOf(i), l \in DOMAIN MappingOf(j) :
                (i # j \/ k # l) => MappingOf(i)[k] # MappingOf(j)[l]

\* Two inodes have blocks mapped and share none.
C3_TwoMapped ==
    /\ st = "ok"
    /\ \E i \in ValidInodes, j \in ValidInodes :
          /\ i # j
          /\ MappingOf(i) # << >> /\ MappingOf(j) # << >>
          /\ \A k \in DOMAIN MappingOf(i), l \in DOMAIN MappingOf(j) :
                MappingOf(i)[k] # MappingOf(j)[l]

\* The last call was a resize_inode that returned Ok for a size greater
\* than the current one (the handle's and the record's).
GrewOk ==
    /\ last.op = "resize_inode" /\ last.res = "Ok"
    /\ last.new_size > last.old_size /\ last.new_size > last.disk_size

\* C4: resize growth.  When resize_inode(i, s) returns Ok with s greater
\* than the current size, afterwards size(i) = s, get_bid(k) is a block id
\* of the data region for every inner index k below ceil(s / BLOCK_SIZE),
\* and the block ids mapped before the call are unchanged.
C4_ResizeGrowth ==
    GrewOk =>
        /\ RecordOf(last.inum).size = last.new_size
        /\ heap[last.h].size = last.new_size
        /\ Len(MappingOf(last.inum)) = BlocksOf(last.new_size)
        /\ \A k \in DOMAIN MappingOf(last.inum) : MappingOf(last.inum)[k] \in DataRegion
        /\ \A k \in DOMAIN last.before :
              k \in DOMAIN MappingOf(last.inum) /\ MappingOf(last.inum)[k] = last.before[k]

\* A file that had blocks grew past the direct blocks and kept them.
C4_GrewPastDirect ==
    /\ GrewOk
    /\ last.before # << >>
    /\ BlocksOf(last.new_size) > N_DIRECT
    /\ \A k \in DOMAIN last.before : MappingOf(last.inum)[k] = last.before[k]

\* The last resize_inode left the inode's size, its block mapping and both
\* bitmaps as they were.
ResizeChangedNothing ==
    /\ RecordOf(last.inum).size = last.disk_size
    /\ MappingOf(last.inum) = last.before
    /\ BitmapsNow = last.bitmaps

\* C11: capacity bound of resize.  resize_inode(i, s) returns Ok for every s
\* with size(i) <= s <= CAPACITY_PER_INODE when the data blocks it needs are
\* free; for every s > CAPACITY_PER_INODE it returns TooLarge and leaves the
\* inode's size, its block mapping and both bitmaps unchanged; a resize to
\* the current size returns Ok and changes nothing.
C11_CapacityBound ==
    last.op = "resize_inode" =>
        /\ last.new_size > CAPACITY_PER_INODE =>
              (last.res = "TooLarge" /\ ResizeChangedNothing)
        /\ last.new_size = last.disk_size =>
              (last.res = "Ok" /\ ResizeChangedNothing)
        /\ (/\ last.disk_size <= last.new_size
            /\ last.new_size <= CAPACITY_PER_INODE
            /\ BlocksOf(last.new_size) - BlocksOf(last.disk_size) <= last.free) =>
              last.res = "Ok"

\* An empty file grew to exactly CAPACITY_PER_INODE, and a file of that
\* size was refused one byte more with nothing changed.
C11_RefusedPastCapacity ==
    /\ last.op = "resize_inode" /\ last.res = "TooLarge"
    /\ last.disk_size = CAPACITY_PER_INODE /\ last.old_size = CAPACITY_PER_INODE
    /\ last.new_size = CAPACITY_PER_INODE + 1
    /\ ResizeChangedNothing

(***************************************************************************)
(* Images: a device that may hold anything in block 1 is formatted with    *)
(* FileSystem::create or opened as it is, used, dropped and formatted or   *)
(* opened again.                                                           *)
(***************************************************************************)
\* The (total_blocks, inode_blocks) handed to FileSystem::create.
Layouts == {1, 4, 6, TotalBlocks - 2, TotalBlocks} \X (0..InodeBlocks)

\* What block 1 of the device holds at the start: zeroes, a super block with
\* another magic number, and the magic number over an otherwise empty one.
Block1s ==
    {ZeroBlock,
     [kind |-> "super",
      v |-> [Layout(TotalBlocks, InodeBlocks) EXCEPT !.magic = FS_MAGIC + 1]],
     [kind |-> "super", v |-> [ZeroSuperBlock EXCEPT !.magic = FS_MAGIC]]}

\* FileSystem::create(dev, total_blocks, inode_blocks)
DoCreate(total_blocks, inode_blocks) ==
    /\ st = "ok" /\ ~mounted /\ nops < MaxOps
    /\ LET c == Create(dev, total_blocks, inode_blocks) IN
       /\ dev' = c.m.dev
       /\ block_cache' = c.m.bc
       /\ inode_cache' = c.m.ic
       /\ heap' = c.m.heap
       /\ sb' = IF c.ok THEN c.sb ELSE sb
       /\ st' = c.m.st
       /\ mounted' = c.ok
       /\ phase' = IF c.ok THEN "fresh" ELSE phase
       /\ last' = [op |-> "create", total_blocks |-> total_blocks,
                   inode_blocks |-> inode_blocks,
                   res |-> Outcome(c.m, IF c.ok THEN "Ok" ELSE "Err")]
    /\ held' = {}
    /\ created' = {}
    /\ nops' = nops + 1
    /\ UNCHANGED <<bmap, threads, lastWrite>>

InitImage ==
    /\ dev \in {[ZeroDevice EXCEPT ![SUPER_BLOCK_LOC] = b] : b \in Block1s}
    /\ sb = ZeroSuperBlock
    /\ block_cache = << >>
    /\ inode_cache = << >>
    /\ heap = << >>
    /\ held = {}
    /\ st = "ok"
    /\ mounted = FALSE
    /\ NoHistory

NextImage ==
    \/ \E l \in Layouts : DoCreate(l[1], l[2])
    \/ \E validate \in BOOLEAN : DoOpen(validate)
    \/ DoRoot
    \/ \E d \in held, name \in {NameA, NameB} : DoLookUp(d, name)
    \/ \E d \in held, type_ \in Types : DoCreateInode(d, NameA, type_)
    \/ DoDrop

SpecImage == InitImage /\ [][NextImage]_vars

(***************************************************************************)
(* The builder tool (mkfs) and the kernel's init_fs.  Names are scaled to  *)
(* DIR_NAME_SIZE: "/b" stands for "/bin" and "h" for "hello".              *)
(***************************************************************************)
\* The name main hands to create_inode for the directory: "/bin".
BinName == <<SLASH, 98>>
\* The source file "hello", and the path init_fs resolves: "/bin/hello".
HelloName == <<104>>
KernelPath == <<SLASH, 98, SLASH, 104>>

\* The source files given to the builder: their names and lengths.
SourceNames == {HelloName, NameA, NameC}
SourceLens == {1, BLOCK_SIZE + 1, N_DIRECT * BLOCK_SIZE + 1}
Content(len) == [i \in 1..len |-> i]

\* The buffer copy2 hands to write_inode after a read at read_count: the
\* bytes read, then what the buffer held before.
Chunk(data, read_count) ==
    [i \in 1..BLOCK_SIZE |->
        IF read_count + i <= Len(data) THEN data[read_count + i]
        ELSE IF read_count + i - BLOCK_SIZE >= 1 THEN data[read_count + i - BLOCK_SIZE]
        ELSE 0]

\* The loop of copy2.
RECURSIVE CopyLoop(_, _, _, _)
CopyLoop(m, file, data, read_count) ==
    IF m.st # "ok" \/ read_count >= Len(data) THEN m
    ELSE CopyLoop(WriteInode(m, file, read_count, Chunk(data, read_count)).m,
                  file, data, read_count + MinOf(BLOCK_SIZE, Len(data) - read_count))

\* copy2 after resize_inode returned r (unwrap).
Copy2Resized(r, file, data) ==
    IF r.m.st # "ok" THEN r.m
    ELSE IF r.res # "Ok" THEN Fail(r.m, "panic")
    ELSE CopyLoop(r.m, file, data, 0)

\* copy2 after create_inode returned c (unwrap): the machine it leaves.
Copy2Created(c, s, data) ==
    IF c.m.st # "ok" THEN c.m
    ELSE IF c.res # "Ok" THEN Fail(c.m, "panic")
    ELSE Copy2Resized(ResizeInode(c.m, s, c.h, Len(data)), c.h, data)

\* main after root() returned r: create_inode(root, "/bin", Directory).unwrap().
BuilderBin(c, root) ==
    [m |-> IF c.m.st = "ok" /\ c.res # "Ok" THEN Fail(c.m, "panic") ELSE c.m,
     root |-> root, bin |-> c.h]
BuilderRoot(r, s) ==
    IF r.m.st # "ok" THEN [m |-> r.m, root |-> 0, bin |-> 0]
    ELSE BuilderBin(CreateInode(r.m, s, r.h, BinName, InodeTypeDirectory), r.h)

\* main up to its loop: FileSystem::create(..).unwrap(), root(), and the
\* directory.
DoBuilderStart ==
    /\ st = "ok" /\ ~mounted /\ phase = "none"
    /\ LET c == Create(dev, TotalBlocks, InodeBlocks)
           b == BuilderRoot(Root(c.m, c.sb), c.sb)
           ok == b.m.st = "ok"
       IN
       /\ Commit(b.m, IF ok THEN {b.root, b.bin} ELSE {})
       /\ sb' = IF c.ok THEN c.sb ELSE sb
       /\ mounted' = c.ok
       /\ created' = IF ok
                     THEN {[dir |-> 0, name |-> BinName,
                            inum |-> b.m.heap[b.bin].inode_num,
                            type_ |-> InodeTypeDirectory]}
                     ELSE {}
       /\ last' = [op |-> "builder_start", res |-> Outcome(b.m, "Ok"),
                   bin |-> IF ok THEN b.bin ELSE 0]
    /\ phase' = "building"
    /\ nops' = nops + 1
    /\ UNCHANGED <<bmap, threads, lastWrite>>

\* One source file of main's loop: copy2(&fs, file_path, &mut bin_dir).
DoBuilderCopy(bin, name, len) ==
    /\ Ready /\ phase = "building"
    /\ bin \in held /\ heap[bin].inode_num # 0
    /\ LET c == CreateInode(Machine, sb, bin, name, InodeTypeFile)
           m == Copy2Created(c, sb, Content(len))
           ok == m.st = "ok"
       IN
       /\ Commit(m, held)
       /\ created' = IF ok
                     THEN created \cup {[dir |-> heap[bin].inode_num, name |-> name,
                                         inum |-> c.m.heap[c.h].inode_num,
                                         type_ |-> InodeTypeFile]}
                     ELSE created
       /\ lastWrite' = IF ok
                       THEN [lastWrite EXCEPT ![c.m.heap[c.h].inode_num] =
                               [some |-> TRUE, offset |-> 0, buf |-> Content(len),
                                size |-> len]]
                       ELSE lastWrite
       /\ last' = [op |-> "copy2", name |-> name, len |-> len,
                   res |-> Outcome(m, "Ok")]
    /\ nops' = nops + 1
    /\ UNCHANGED <<bmap, threads, sb, mounted, phase>>

\* The end of main: the guards, the handles and the file system are dropped.
DoBuilderExit ==
    /\ st = "ok" /\ mounted /\ phase = "building"
    /\ dev' = BlockCacheDropAll(dev, block_cache)
    /\ block_cache' = << >>
    /\ inode_cache' = << >>
    /\ heap' = << >>
    /\ held' = {}
    /\ mounted' = FALSE
    /\ phase' = "built"
    /\ last' = [op |-> "builder_exit"]
    /\ UNCHANGED <<bmap, threads, sb, st, lastWrite, created, nops>>

\* The loop of the kernel's init_fs that reads the file block by block:
\* [m, bytes].
RECURSIVE KernelReadLoop(_, _, _, _)
KernelRead(r, h, offset, bytes) ==
    IF r.m.st # "ok" THEN [m |-> r.m, bytes |-> bytes]
    ELSE IF r.completed # BLOCK_SIZE THEN [m |-> r.m, bytes |-> bytes \o r.buf]
    ELSE KernelReadLoop(r.m, h, offset + r.completed, bytes \o r.buf)

KernelReadLoop(m, h, offset, bytes) ==
    KernelRead(ReadInode(m, h, offset, BLOCK_SIZE), h, offset, bytes)

\* init_fs after get_inode_from_path returned p (expect).
KernelResolved(p) ==
    IF p.m.st # "ok" THEN [m |-> p.m, found |-> FALSE, h |-> 0, bytes |-> << >>]
    ELSE IF ~p.some
    THEN [m |-> Fail(p.m, "panic"), found |-> FALSE, h |-> 0, bytes |-> << >>]
    ELSE [m |-> KernelReadLoop(p.m, p.h, 0, << >>).m, found |-> TRUE, h |-> p.h,
          bytes |-> KernelReadLoop(p.m, p.h, 0, << >>).bytes]

\* init_fs after fs.root() returned r.
KernelRooted(r, s) ==
    IF r.m.st # "ok" THEN [m |-> r.m, found |-> FALSE, h |-> 0, bytes |-> << >>]
    ELSE KernelResolved(GetInodeFromPath(r.m, s, KernelPath, r.h, {}))

\* init_fs after FileSystem::open(dev, true) returned o (expect).
KernelOpened(o) ==
    IF ~o.ok THEN [m |-> Fail(o.m, "panic"), found |-> FALSE, h |-> 0, bytes |-> << >>]
    ELSE KernelRooted(Root(o.m, o.sb), o.sb)

\* The kernel's init_fs on the image the builder left.
DoKernelInitFs ==
    /\ st = "ok" /\ ~mounted /\ phase = "built"
    /\ LET o == Open(dev, TRUE)
           k == KernelOpened(o)
       IN
       /\ Commit(k.m, {})
       /\ sb' = IF o.ok THEN o.sb ELSE sb
       /\ mounted' = (k.m.st = "ok")
       /\ last' = [op |-> "init_fs", res |-> Outcome(k.m, "Ok"), found |-> k.found,
                   rinum |-> IF k.found THEN k.m.heap[k.h].inode_num ELSE 0,
                   rtype |-> IF k.found THEN k.m.heap[k.h].type_ ELSE InodeTypeInvalid,
                   bytes |-> k.bytes]
    /\ phase' = "booted"
    /\ UNCHANGED <<bmap, threads, lastWrite, created, nops>>

NextBoot ==
    \/ DoBuilderStart
    \/ \E bin \in held, name \in SourceNames, len \in SourceLens :
          DoBuilderCopy(bin, name, len)
    \/ DoBuilderExit
    \/ DoKernelInitFs

SpecBoot == InitImage /\ [][NextBoot]_vars

\* The builder copied the source file "hello" into the directory it made.
HelloCopied ==
    \E b \in created, c \in created :
        /\ b.dir = 0 /\ b.name = BinName
        /\ c.dir = b.inum /\ c.name = HelloName /\ c.type_ = InodeTypeFile

\* C8: builder/kernel path agreement.  In an image the builder produced
\* from a source file named hello, get_inode_from_path("/bin/hello", root)
\* returns the File inode that holds the copied file.
C8_PathAgreement ==
    (last.op = "init_fs" /\ HelloCopied) =>
        /\ last.res = "Ok" /\ last.found
        /\ last.rtype = InodeTypeFile
        /\ \E c \in created : c.name = HelloName /\ c.inum = last.rinum
        /\ last.bytes = lastWrite[last.rinum].buf

\* The kernel's init_fs ran on an image whose record of "hello" is a file
\* of the copied length.
C8_KernelRanOnImage ==
    /\ last.op = "init_fs" /\ HelloCopied
    /\ \E c \in created :
          /\ c.name = HelloName
          /\ RecordOf(c.inum).type_ = InodeTypeFile
          /\ RecordOf(c.inum).size = lastWrite[c.inum].size
          /\ lastWrite[c.inum].size > 0

(***************************************************************************)
(* Properties of images (checked under SpecImage).                         *)
(***************************************************************************)
\* C9: fresh image.  For every (total_blocks, inode_blocks) that create
\* accepts, the returned file system has root() = inode 0 of type Directory
\* and size 0, look_up(root, n) = None for every name n, exactly bit 0 of
\* the inode bitmap set and no bit of the data bitmap set.
C9_FreshImage ==
    /\ (last.op = "create" /\ last.res = "Ok") => (mounted /\ phase = "fresh")
    /\ phase = "fresh" =>
          /\ st = "ok"
          /\ RecordOf(0).type_ = InodeTypeDirectory
          /\ RecordOf(0).size = 0
          /\ BitmapsAreBytes
          /\ BitsOfRange(sb.inode_bmap_start, sb.inode_start) = {0}
          /\ BitsOfRange(sb.data_bmap_start, sb.data_start) = {}
          /\ last.op = "root" =>
                /\ last.res = "Some" /\ last.rinum = 0
                /\ last.rtype = InodeTypeDirectory /\ last.rsize = 0
          /\ last.op = "look_up" => (last.dir = 0 /\ last.res = "None")

\* A device that had been formatted and used is formatted again, and
\* root() of the new file system returns inode 0.
C9_FormattedAgain ==
    /\ phase = "fresh"
    /\ last.op = "root" /\ last.res = "Some" /\ last.rinum = 0
    /\ \E b \in DataRegion : dev[b] # ZeroBlock

\* C10: open validation.  open(device, true) returns Invalid if and only
\* if the magic field of block 1 differs from FS_MAGIC; open(device, false)
\* succeeds for every block-1 content; on success the handle's super block
\* equals the one stored in block 1; open writes nothing to the device.
C10_OpenValidation ==
    last.op = "open" =>
        /\ last.res \in {"Ok", "Invalid"}
        /\ last.validate =>
              ((last.res = "Invalid") =
               (ViewAs(last.before[SUPER_BLOCK_LOC], "super").magic # FS_MAGIC))
        /\ ~last.validate => last.res = "Ok"
        /\ last.res = "Ok" =>
              (mounted /\ sb = ViewAs(last.before[SUPER_BLOCK_LOC], "super"))
        /\ last.res = "Invalid" => ~mounted
        /\ dev = last.before

\* A validated open of a device whose block 1 carries another magic number
\* returned Invalid.
C10_Rejected ==
    /\ last.op = "open" /\ last.validate /\ last.res = "Invalid"
    /\ ViewAs(dev[SUPER_BLOCK_LOC], "super").magic = FS_MAGIC + 1


(***************************************************************************)
(* Allocation: a file system fresh from FileSystem::create, for every      *)
(* layout create accepts, and a caller of allocate_data_block and          *)
(* allocate_inode.  Here `created` holds the calls of allocate_data_block  *)
(* made so far, as (index of the call, whether it returned Some, block).   *)
(***************************************************************************)
\* The calls of allocate_data_block a run makes.
MaxAllocs == 10

\* fs.allocate_data_block()
DoAllocateDataBlock ==
    /\ st = "ok" /\ mounted /\ Cardinality(created) < MaxAllocs
    /\ LET r == AllocateDataBlock(Machine, sb) IN
       /\ Commit(r.m, held)
       /\ last' = [op |-> "allocate_data_block", i |-> Cardinality(created),
                   res |-> Outcome(r.m, IF r.some THEN "Some" ELSE "None"),
                   block_id |-> r.block_id]
       /\ created' = created \cup {[i |-> Cardinality(created), some |-> r.some,
                                    block_id |-> r.block_id]}
    /\ UNCHANGED <<bmap, threads, sb, mounted, lastWrite, phase, nops>>

\* fs.allocate_inode(type_)
DoAllocateInode(type_) ==
    /\ Ready
    /\ LET r == AllocateInode(Machine, sb, type_) IN
       /\ Commit(r.m, IF r.some /\ Cardinality(held) < MaxHeld THEN Keep(r.h) ELSE held)
       /\ last' = [op |-> "allocate_inode", type_ |-> type_,
                   res |-> Outcome(r.m, IF r.some THEN "Some" ELSE "None"),
                   rinum |-> IF r.some THEN r.m.heap[r.h].inode_num ELSE 0]
    /\ nops' = nops + 1
    /\ UNCHANGED <<bmap, threads, sb, mounted, lastWrite, created, phase>>

InitAlloc ==
    /\ \E l \in Layouts : Created(ZeroDevice, l[1], l[2])
    /\ NoHistory

NextAlloc ==
    \/ DoAllocateDataBlock
    \/ \E type_ \in Types : DoAllocateInode(type_)
    \/ \E h \in held : DoRelease(h)

SpecAlloc == InitAlloc /\ [][NextAlloc]_vars

\* C12: sequential data-block allocation.  On a freshly created file
\* system, for every i below max_blocks_num() the i-th call of
\* allocate_data_block returns Some(data_start + i), and the call after
\* those max_blocks_num() calls returns None, for every layout create
\* accepts.
C12_SequentialAllocation ==
    last.op = "allocate_data_block" =>
        /\ last.i < MaxBlocksNum(sb) =>
              (last.res = "Some" /\ last.block_id = sb.data_start + last.i)
        /\ last.i = MaxBlocksNum(sb) => last.res = "None"

\* On the layout with two inode blocks every data block was handed out in
\* order and the next call returned None.
C12_AllHandedOut ==
    /\ last.op = "allocate_data_block" /\ last.res = "None"
    /\ sb.inode_blocks = InodeBlocks /\ sb.data_blocks = MaxBlocksNum(sb)
    /\ last.i = MaxBlocksNum(sb) /\ last.i > 0
    /\ \A c \in created : c.i < last.i => (c.some /\ c.block_id = sb.data_start + c.i)


(***************************************************************************)
(* Ownership of the bitmaps.                                               *)
(***************************************************************************)
\* The inode numbers that are the root or named by a directory entry of a
\* valid inode.
NamedInodes ==
    {0} \cup UNION {{DirEntryInum(EntriesOf(d)[e]) : e \in DOMAIN EntriesOf(d)} :
                    d \in {i \in RegionInodes :
                              RecordOf(i).type_ = InodeTypeDirectory}}

\* The data blocks mapped by some valid inode, numbered from data_start.
MappedBlocks ==
    UNION {{MappingOf(i)[k] - sb.data_start : k \in DOMAIN MappingOf(i)} :
           i \in {j \in RegionInodes : RecordOf(j).type_ # InodeTypeInvalid}}

\* C13: ownership of the bitmaps.  After every operation, also one that
\* returns an error, a bit of the inode bitmap is set iff that inode number
\* is the root or is named by a directory entry of a valid inode, and a bit
\* of the data bitmap is set iff that block is mapped by some valid inode.
C13_BitmapOwnership ==
    st = "ok" =>
        /\ BitsOfRange(sb.inode_bmap_start, sb.inode_start) = NamedInodes
        /\ BitsOfRange(sb.data_bmap_start, sb.data_start) = MappedBlocks

\* After a create_inode that returned Ok the set bits are exactly those
\* owned: the root and the new inode, and the directory's one block.
C13_OwnedAfterCreate ==
    /\ st = "ok"
    /\ last.op = "create_inode" /\ last.res = "Ok"
    /\ BitsOfRange(sb.inode_bmap_start, sb.inode_start) = NamedInodes
    /\ BitsOfRange(sb.data_bmap_start, sb.data_start) = MappedBlocks
    /\ last.rinum \in NamedInodes
    /\ MappedBlocks # {}


(***************************************************************************)
(* The inode cache on its own: a caller of InodeCacheBuffer::get with any  *)
(* inode number up to one past inode_count, next to allocate_inode.        *)
(***************************************************************************)
\* fs.inode_cache.lock().get(inum, fs.clone())
DoInodeCacheGet(inum) ==
    /\ Ready
    /\ LET r == InodeCacheGet(Machine, sb, inum) IN
       /\ Commit(r.m, IF r.ok /\ Cardinality(held) < MaxHeld THEN Keep(r.h) ELSE held)
       /\ last' = [op |-> "inode_cache_get", inum |-> inum,
                   res |-> Outcome(r.m, IF r.ok THEN "Ok" ELSE "InodeNotExists"),
                   rh |-> r.h,
                   block_id |-> IF r.ok THEN r.m.heap[r.h].block_id ELSE 0,
                   block_cache |-> block_cache, inode_cache |-> inode_cache]
    /\ nops' = nops + 1
    /\ UNCHANGED <<bmap, threads, sb, mounted, lastWrite, created, phase>>

\* The inode numbers the caller asks for: the first two, the last of the
\* inode region, inode_count and the one after it.
AskedInodes ==
    {0, 1, MaxInodeNum(sb) - 1, MaxInodeNum(sb), MaxInodeNum(sb) + 1}

NextInodes ==
    \/ \E inum \in AskedInodes : DoInodeCacheGet(inum)
    \/ \E type_ \in Types : DoAllocateInode(type_)
    \/ \E h \in held : DoRelease(h)

SpecInodes == Init /\ [][NextInodes]_vars

\* C14: inode range check.  The inode cache's get(inum) returns
\* InodeNotExists(inum) for every inum outside [0, inode_count), inum =
\* inode_count included; it then reads no block and leaves the inode cache
\* unchanged.  For every inum inside the range the record it loads lies in
\* the inode region [inode_start, data_bmap_start).
C14_InodeRangeCheck ==
    last.op = "inode_cache_get" =>
        /\ last.inum >= MaxInodeNum(sb) =>
              /\ last.res = "InodeNotExists"
              /\ block_cache = last.block_cache
              /\ inode_cache = last.inode_cache
        /\ (last.inum < MaxInodeNum(sb) /\ last.res = "Ok") =>
              last.block_id \in sb.inode_start..(sb.data_bmap_start - 1)

\* A get of inode_count + 1 on a cache holding an entry was refused and
\* touched neither cache.
C14_RefusedPastCount ==
    /\ last.op = "inode_cache_get" /\ last.res = "InodeNotExists"
    /\ last.inum = MaxInodeNum(sb) + 1
    /\ inode_cache # << >> /\ inode_cache = last.inode_cache
    /\ block_cache = last.block_cache


(***************************************************************************)
(* Exhaustion of the inodes: the name space with a fourth name, so that a  *)
(* directory can hold as many entries as there are inodes to name and      *)
(* still be asked for a name it does not hold.                             *)
(***************************************************************************)
NameD == <<100>>

NextExhaust ==
    \/ DoRoot
    \/ \E d \in held, name \in Names \cup {NameD}, type_ \in Types :
          DoCreateInode(d, name, type_)
    \/ \E h \in held : DoRelease(h)

SpecExhaust == Init /\ [][NextExhaust]_vars

\* Every slot of the inode region had its bit set in the bitmaps given.
SlotsTaken(bitmaps) ==
    RegionInodes \subseteq
        UNION {{(b - sb.inode_bmap_start) * BITS_PER_BYTE * BLOCK_SIZE + k :
                   k \in BitmapBits(ViewAs(bitmaps[b], "bytes"))} :
               b \in sb.inode_bmap_start..(sb.inode_start - 1)}

\* The last call was a create_inode, of a name its directory did not hold,
\* on a file system whose inode slots were all allocated.
CreateWhenExhausted ==
    /\ last.op = "create_inode"
    /\ SlotsTaken(last.before.bitmaps)
    /\ Matching(last.before.entries, last.name) = {}

\* C15: inode exhaustion.  On a file system whose inode_count slots are all
\* allocated create_inode returns InodeExhausted, and no inode record of
\* the inode region and no directory is modified; repeating the call gives
\* the same result.
C15_InodeExhaustion ==
    CreateWhenExhausted =>
        /\ last.res = "InodeExhausted"
        /\ InodeRegionNow = last.inodes
        /\ DirectoriesNow = last.dirs

\* A create_inode on the exhausted file system returned InodeExhausted and
\* left the inode region and the directories as they were.
C15_Exhausted ==
    /\ CreateWhenExhausted
    /\ last.res = "InodeExhausted"
    /\ InodeRegionNow = last.inodes
    /\ DirectoriesNow = last.dirs
    /\ Cardinality(DOMAIN DirectoriesNow) = 2


(***************************************************************************)
(* The block cache on its own: a BlockCacheBuffer of BLOCK_BUFFER_SIZE     *)
(* entries over a device, and a caller that gets blocks, keeps or drops    *)
(* the handles, writes through the handles it keeps, and flushes.  Here    *)
(* `held` holds the block ids of the entries the caller has a handle of    *)
(* (Arc::strong_count > 1), and `created` the block ids written through a  *)
(* handle so far.                                                          *)
(***************************************************************************)
\* The block ids the caller asks for: one more than the cache holds, and
\* the first one past the end of the device.
CacheBlocks == (0..BLOCK_BUFFER_SIZE) \cup {DevBlocks}

\* A device every block of which holds its own number.
NumberedDevice ==
    [b \in 0..(DevBlocks - 1) |-> [kind |-> "bytes", v |-> [i \in 1..BLOCK_SIZE |-> b]]]

\* What the caller writes through a handle.
Written == [i \in 1..BLOCK_SIZE |-> BYTE_FULL]

InitCache ==
    /\ dev = NumberedDevice
    /\ sb = ZeroSuperBlock
    /\ block_cache = << >>
    /\ inode_cache = << >>
    /\ heap = << >>
    /\ held = {}
    /\ st = "ok"
    /\ mounted = FALSE
    /\ NoHistory

\* block_cache.get(block_id, dev.clone()); the caller keeps the handle or
\* drops it at once.
DoBlockGet(block_id, keep) ==
    /\ st = "ok"
    /\ LET m == BlockCacheGet(Machine, block_id, held) IN
       /\ dev' = m.dev
       /\ block_cache' = m.bc
       /\ st' = m.st
       /\ held' = IF m.st = "ok" /\ keep THEN held \cup {block_id} ELSE held
       /\ last' = [op |-> "get", block_id |-> block_id, res |-> Outcome(m, "Ok"),
                   block_cache |-> block_cache, held |-> held, dev |-> dev]
    /\ UNCHANGED <<bmap, threads, sb, inode_cache, heap, mounted, lastWrite, created, phase, nops>>

\* drop(handle)
DoBlockRelease(block_id) ==
    /\ st = "ok"
    /\ block_id \in held
    /\ held' = held \ {block_id}
    /\ last' = [op |-> "drop", block_id |-> block_id, res |-> "Ok",
                block_cache |-> block_cache, held |-> held, dev |-> dev]
    /\ UNCHANGED <<bmap, threads, dev, sb, block_cache, inode_cache, heap, st, mounted, lastWrite,
                   created, phase, nops>>

\* handle.lock().write(0, ..)
DoBlockWrite(block_id) ==
    /\ st = "ok"
    /\ block_id \in held /\ InBlockCache(block_cache, block_id)
    /\ block_cache' = BlockCacheWrite(Machine, block_id, "bytes", Written).bc
    /\ last' = [op |-> "write", block_id |-> block_id, res |-> "Ok",
                block_cache |-> block_cache, held |-> held, dev |-> dev]
    /\ created' = created \cup {block_id}
    /\ UNCHANGED <<bmap, threads, dev, sb, inode_cache, heap, held, st, mounted, lastWrite, phase, nops>>

\* block_cache.flush()
DoBlockFlush ==
    /\ st = "ok"
    /\ LET m == BlockCacheFlush(Machine) IN
       /\ dev' = m.dev
       /\ block_cache' = m.bc
       /\ st' = m.st
    /\ last' = [op |-> "flush", block_id |-> 0, res |-> "Ok",
                block_cache |-> block_cache, held |-> held, dev |-> dev]
    /\ UNCHANGED <<bmap, threads, sb, inode_cache, heap, held, mounted, lastWrite, created, phase, nops>>

NextCache ==
    \/ \E block_id \in CacheBlocks, keep \in BOOLEAN : DoBlockGet(block_id, keep)
    \/ \E block_id \in held : DoBlockRelease(block_id)
    \/ \E block_id \in held : DoBlockWrite(block_id)
    \/ DoBlockFlush

SpecCache == InitCache /\ [][NextCache]_vars

\* The last call was a get of a block the cache did not hold.
GetMissed ==
    /\ last.op = "get"
    /\ \A i \in 1..Len(last.block_cache) : last.block_cache[i].block_id # last.block_id

\* Every entry of the cache was referenced outside it when the last call
\* began.
AllWereHeld ==
    \A i \in 1..Len(last.block_cache) : last.block_cache[i].block_id \in last.held

\* C16: capacity of the block cache.  After any sequence of get calls and
\* handle releases the cache holds at most `capacity` entries; a miss on a
\* full cache every entry of which is still referenced outside the cache
\* panics ("Out of block cache buffer") instead of growing the cache or
\* evicting a referenced entry.
C16_BlockCacheCapacity ==
    /\ Len(block_cache) <= BLOCK_BUFFER_SIZE
    /\ (/\ GetMissed
        /\ Len(last.block_cache) = BLOCK_BUFFER_SIZE
        /\ AllWereHeld) =>
          (last.res = "panic" /\ block_cache = last.block_cache)

\* A get of a block of the device missed a full cache all of whose entries
\* the caller held, and panicked.
C16_OutOfBuffer ==
    /\ GetMissed /\ AllWereHeld
    /\ Len(last.block_cache) = BLOCK_BUFFER_SIZE
    /\ last.block_id \in DOMAIN dev
    /\ last.res = "panic" /\ st = "panic"
    /\ block_cache = last.block_cache


\* C17: a single copy per block.  In every reachable state the block cache
\* contains at most one entry per block id, and while a handle to the entry
\* of block b is held every get(b) returns a handle to that same entry: the
\* entry stays in the cache, and the get neither loads nor removes a buffer.
C17_SingleCopy ==
    /\ \A i \in 1..Len(block_cache), j \in 1..Len(block_cache) :
          block_cache[i].block_id = block_cache[j].block_id => i = j
    /\ \A b \in held : \E i \in 1..Len(block_cache) : block_cache[i].block_id = b
    /\ (last.op = "get" /\ last.block_id \in last.held) =>
          (last.res = "Ok" /\ block_cache = last.block_cache)

\* A get of a block whose handle the caller held, in a full cache, gave the
\* entry that was there.
C17_SameEntry ==
    /\ last.op = "get" /\ last.res = "Ok"
    /\ last.block_id \in last.held
    /\ Len(block_cache) = BLOCK_BUFFER_SIZE
    /\ block_cache = last.block_cache
    /\ block_cache[Len(block_cache)].block_id = last.block_id

C19_InodeCacheUniqueness ==
    /\ \A i \in 1..Len(inode_cache), j \in 1..Len(inode_cache) :
          inode_cache[i].inum = inode_cache[j].inum => i = j
    /\ Len(inode_cache) <= INODE_BUFFER_SIZE
    /\ (last.op = "inode_cache_get" /\ last.res = "Ok") =>
          /\ inode_cache # << >>
          /\ inode_cache[1] = [inum |-> last.inum, h |-> last.rh]

\* A get of an inode number a full cache did not hold: the tail went, the
\* new entry is at the head and the former head behind it.
C19_TailEvicted ==
    /\ last.op = "inode_cache_get" /\ last.res = "Ok"
    /\ Len(last.inode_cache) = INODE_BUFFER_SIZE
    /\ \A i \in 1..Len(last.inode_cache) : last.inode_cache[i].inum # last.inum
    /\ Len(inode_cache) = INODE_BUFFER_SIZE
    /\ inode_cache[1].inum = last.inum
    /\ inode_cache[2] = last.inode_cache[1]


\* The last call was a get that had the device read a block it does not
\* have: the read failed.
DeviceReadFailed ==
    /\ GetMissed
    /\ last.block_id \notin DOMAIN last.dev
    /\ ~(Len(last.block_cache) = BLOCK_BUFFER_SIZE /\ AllWereHeld)

\* C20: propagation of I/O errors.  When the block device fails a read or
\* a write, the operation that caused it reports an Io error to its
\* caller; it never continues with a buffer that was not filled from the
\* device and never marks an entry clean whose write-back failed.
C20_IoErrorPropagation ==
    DeviceReadFailed =>
        /\ last.res = "Io"
        /\ st = "ok"
        /\ \A i \in 1..Len(block_cache) : block_cache[i].block_id # last.block_id


(***************************************************************************)
(* Termination of reads, the indirect index block, the direct slots and    *)
(* the handles' copies of the record.                                      *)
(***************************************************************************)
\* C23: termination of reads by a single thread.  For every valid inode and
\* every offset below its size, read_inode returns after finitely many
\* steps without trying to take the block-cache lock while it holds it,
\* also for ranges whose blocks have an inner index of N_DIRECT or more.
C23_ReadTerminates ==
    (/\ last.op = "read_inode"
     /\ RecordOf(last.inum).type_ # InodeTypeInvalid
     /\ last.offset < RecordOf(last.inum).size) =>
        last.res # "hang"

\* A read inside the direct blocks of an inode that also maps blocks past
\* them returned every byte asked for.
C23_DirectReadReturned ==
    /\ last.op = "read_inode" /\ last.res = "Returned"
    /\ RecordOf(last.inum).size > N_DIRECT * BLOCK_SIZE
    /\ last.offset + last.n <= N_DIRECT * BLOCK_SIZE
    /\ last.n > 0 /\ last.completed = last.n


\* C24: write-back coherence.  For any sequence of get, write through an
\* entry, handle release, eviction and flush on one block cache, a dirty
\* entry chosen for eviction is written to the device before the
\* replacement block is read, so the contents observed through the cache
\* for block b, from a live entry or re-read after eviction, always equal
\* the last contents written to b through the cache; a clean entry is never
\* written to the device.
C24_WriteBackCoherence ==
    /\ \A b \in DOMAIN dev :
          Through(dev, block_cache, b).v =
              IF b \in created THEN Written ELSE NumberedDevice[b].v
    /\ last.op # "none" =>
          \A i \in 1..Len(last.block_cache) :
              /\ ~last.block_cache[i].modified =>
                    dev[last.block_cache[i].block_id] =
                        last.dev[last.block_cache[i].block_id]
              /\ (\A j \in 1..Len(block_cache) :
                     block_cache[j].block_id # last.block_cache[i].block_id) =>
                    dev[last.block_cache[i].block_id] = last.block_cache[i].cache

\* A block written through a handle was evicted while dirty and is read
\* again: the new entry is clean and holds what was written.
C24_ReadBackAfterEviction ==
    /\ GetMissed /\ last.res = "Ok"
    /\ last.block_id \in created
    /\ last.dev[last.block_id].v = Written
    /\ block_cache[Len(block_cache)] =
          [block_id |-> last.block_id, cache |-> [kind |-> "bytes", v |-> Written],
           modified |-> FALSE]
    /\ \E i \in 1..Len(last.block_cache) :
          /\ last.block_cache[i].modified
          /\ dev[last.block_cache[i].block_id] # last.dev[last.block_cache[i].block_id]


\* The inodes of the inode region whose record is in use.
UsedInodes == {i \in RegionInodes : RecordOf(i).type_ # InodeTypeInvalid}

\* C28: allocation of the indirect index block.  When resize_inode grows an
\* inode from at most N_DIRECT mapped blocks to more, exactly one more
\* block is allocated from the data bitmap as its index block and the
\* record's indirect field is set to it; in every reachable state an
\* inode's indirect field is non-zero and inside the data region iff the
\* inode maps more than N_DIRECT blocks, and no two inodes have the same
\* index block.
C28_IndirectBlock ==
    st = "ok" =>
        /\ \A i \in UsedInodes :
              (RecordOf(i).indirect # 0 /\ RecordOf(i).indirect \in DataRegion)
                  = (BlocksOf(RecordOf(i).size) > N_DIRECT)
        /\ \A i \in UsedInodes, j \in UsedInodes :
              (/\ i # j
               /\ BlocksOf(RecordOf(i).size) > N_DIRECT
               /\ BlocksOf(RecordOf(j).size) > N_DIRECT) =>
                  RecordOf(i).indirect # RecordOf(j).indirect
        /\ (/\ last.op = "resize_inode" /\ last.res = "Ok"
            /\ last.old_size = last.disk_size
            /\ BlocksOf(last.disk_size) <= N_DIRECT
            /\ BlocksOf(last.new_size) > N_DIRECT) =>
              last.free - FreeDataBlocks =
                  BlocksOf(last.new_size) - BlocksOf(last.disk_size) + 1

\* An inode grown inside its direct blocks has no index block.
C28_NoIndexWhileDirect ==
    /\ st = "ok"
    /\ last.op = "resize_inode" /\ last.res = "Ok"
    /\ last.disk_size = 0 /\ last.new_size = BLOCK_SIZE - 1
    /\ RecordOf(last.inum).size = BLOCK_SIZE - 1
    /\ RecordOf(last.inum).indirect = 0
    /\ Len(MappingOf(last.inum)) = 1



\* C29: mapped-block count.  After every resize_inode call that returns Ok
\* or fails with Exhausted, the direct slots of the inode's record that
\* hold a data block id are exactly the first min(ceil(size / BLOCK_SIZE),
\* N_DIRECT) ones; the slots at or beyond ceil(size / BLOCK_SIZE) are 0.
C29_MappedBlockCount ==
    (/\ st = "ok" /\ last.op = "resize_inode"
     /\ last.res \in {"Ok", "Exhausted"}) =>
        \A k \in 1..N_DIRECT :
            (RecordOf(last.inum).addresses[k] # 0) = (k <= BlocksOf(RecordOf(last.inum).size))

\* A growth that found every block it needed leaves the slots as counted.
C29_GrownInDirect ==
    /\ st = "ok" /\ last.op = "resize_inode" /\ last.res = "Ok"
    /\ last.disk_size = 0 /\ last.new_size = N_DIRECT * BLOCK_SIZE + 1
    /\ RecordOf(last.inum).size = last.new_size
    /\ \A k \in 1..N_DIRECT : RecordOf(last.inum).addresses[k] \in DataRegion



\* C30: snapshot coherence.  After every allocate_inode, create_inode or
\* resize_inode, every inode handle that is still referenced, in the inode
\* cache or not, carries a copy (type, indirect, link count, size, direct
\* addresses) equal to the record of its inode as read through the block
\* cache.
C30_SnapshotCoherence ==
    (/\ st = "ok"
     /\ last.op \in {"allocate_inode", "create_inode", "resize_inode"}) =>
        \A h \in DOMAIN heap : InodeDinode(heap[h]) = RecordOf(heap[h].inode_num)

\* A resize seen by the one handle of its inode.
C30_SingleHandleCoherent ==
    /\ st = "ok" /\ last.op = "resize_inode" /\ last.res = "Ok"
    /\ last.new_size > last.disk_size
    /\ \A h \in DOMAIN heap : heap[h].inode_num = last.inum => h = last.h
    /\ heap[last.h].size = last.new_size
    /\ InodeDinode(heap[last.h]) = RecordOf(last.inum)



(***************************************************************************)
(* The locking discipline.  Every lock is a spin::Mutex: the inode cache   *)
(* (FileSystem::inode_cache), an inode handle (Arc<Mutex<Inode>>), the     *)
(* block cache (FileSystem::block_cache) and a block-cache entry           *)
(* (Arc<Mutex<BlockCache>>).  A call is followed as the sequence of its    *)
(* lock operations, in the order the code performs them: a guard that is a *)
(* temporary of an expression is released at the end of the enclosing      *)
(* statement (or of the whole match, for a match scrutinee), a guard bound *)
(* by `let` at the end of its block.  The values the sequence depends on   *)
(* (block ids, cache hits, directory entries) are those of the file system *)
(* the call starts from.                                                   *)
(***************************************************************************)
InodeCacheLock == [k |-> "inode_cache", n |-> 0, by |-> 0]
BlockCacheLock == [k |-> "block_cache", n |-> 0, by |-> 0]
\* The lock of the cell h in a call of thread t: a cell of the heap the call
\* started from is shared, a cell the call built is the thread's own.
HandleLock(h, t) == [k |-> "inode", n |-> h, by |-> IF h \in DOMAIN heap THEN 0 ELSE t]
\* The lock of the entry of block block_id (one entry per block id at a time).
EntryLock(block_id) == [k |-> "entry", n |-> block_id, by |-> 0]

\* The level of a lock in the ordering.
Level(l) ==
    CASE l.k = "inode_cache" -> 1
      [] l.k = "inode" -> 2
      [] l.k = "block_cache" -> 3
      [] l.k = "entry" -> 4

Acq(l) == [a |-> "acq", l |-> l]
Rel(l) == [a |-> "rel", l |-> l]

\* `cache.lock().get(block_id, ..).lock().read(..)` (or write) as one
\* expression: the guard of the block cache is a temporary that lives until
\* the end of the statement, past the entry's guard.
Chained(block_id) ==
    <<Acq(BlockCacheLock), Acq(EntryLock(block_id)),
      Rel(EntryLock(block_id)), Rel(BlockCacheLock)>>

\* DInode::get_bid
GetBidLocks(dinode, idx) ==
    IF idx < N_DIRECT \/ idx >= N_DIRECT + N_INDIRECT THEN << >>
    ELSE Chained(dinode.indirect)

\* DInode::set_bid
SetBidLocks(dinode, idx) ==
    IF idx < N_DIRECT \/ idx >= N_DIRECT + N_INDIRECT THEN << >>
    ELSE Chained(dinode.indirect)

\* The block id DInode::get_bid returns on machine m.
BidIn(m, dinode, idx) ==
    IF idx < N_DIRECT THEN dinode.addresses[idx + 1]
    ELSE ViewAs(Through(m.dev, m.bc, dinode.indirect), "index")[idx - N_DIRECT + 1]

\* DInode::read_data: the receiver `cache.lock()` is evaluated before the
\* argument `self.get_bid(..)` of get.
RECURSIVE ReadDataLocksFrom(_, _, _, _, _)
ReadDataLocksFrom(m, dinode, start, end, start_block) ==
    IF start >= end \/ start_block >= MAX_BLOCKS_PER_INODE THEN << >>
    ELSE <<Acq(BlockCacheLock)>> \o GetBidLocks(dinode, start_block)
         \o <<Acq(EntryLock(BidIn(m, dinode, start_block))),
              Rel(EntryLock(BidIn(m, dinode, start_block))), Rel(BlockCacheLock)>>
         \o ReadDataLocksFrom(m, dinode, start + Incr(start, end, start_block), end,
                              start_block + 1)

ReadDataLocks(m, dinode, offset, n) ==
    IF m.st # "ok" \/ offset > dinode.size THEN << >>
    ELSE ReadDataLocksFrom(m, dinode, offset, offset + MinOf(n, dinode.size - offset),
                           offset \div BLOCK_SIZE)

\* DInode::write_data: get_bid is a statement of its own.
RECURSIVE WriteDataLocksFrom(_, _, _, _, _)
WriteDataLocksFrom(m, dinode, start_addr, end_addr, start_block) ==
    IF start_addr >= end_addr \/ start_block >= MAX_BLOCKS_PER_INODE THEN << >>
    ELSE GetBidLocks(dinode, start_block)
         \o Chained(BidIn(m, dinode, start_block))
         \o WriteDataLocksFrom(m, dinode,
                start_addr + Incr(start_addr, end_addr, start_block),
                end_addr, start_block + 1)

WriteDataLocks(m, dinode, offset, n) ==
    IF m.st # "ok" \/ offset > dinode.size THEN << >>
    ELSE WriteDataLocksFrom(m, dinode, offset, offset + MinOf(n, dinode.size - offset),
                            offset \div BLOCK_SIZE)

\* FileSystem::update_dinode on a handle whose record lies in block_id: the
\* block cache is released at the end of the `let`, the entry is held
\* while the closure runs.
UpdateDinodeLocks(block_id, closure) ==
    <<Acq(BlockCacheLock), Rel(BlockCacheLock), Acq(EntryLock(block_id))>>
    \o closure \o <<Rel(EntryLock(block_id))>>

\* clear_block
ClearBlockLocks(bid) ==
    <<Acq(BlockCacheLock), Rel(BlockCacheLock), Acq(EntryLock(bid)), Rel(EntryLock(bid))>>

\* FileSystem::allocate_bmap from bitmap block i on.
RECURSIVE AllocateBmapLocks(_, _, _)
AllocateBmapLocks(m, i, end) ==
    IF m.st # "ok" \/ i >= end THEN << >>
    ELSE Chained(i)
         \o IF BitmapAllocate(ViewAs(Through(m.dev, m.bc, i), "bytes")).found THEN << >>
            ELSE AllocateBmapLocks(m, i + 1, end)

\* FileSystem::allocate_data_block
AllocateDataBlockLocks(m, s) == AllocateBmapLocks(m, s.data_bmap_start, s.data_start)

\* The allocation loop of resize_inode and the set_inode_size after it.
RECURSIVE ResizeLoopLocks(_, _, _, _, _, _, _)
\* One round once allocate_data_block returned a.
ResizeBlockLocks(a, s, h, base_idx, i, needed_blocks, new_size) ==
    IF a.m.st # "ok" \/ ~a.some THEN << >>
    ELSE ClearBlockLocks(a.block_id)
         \o UpdateDinodeLocks(a.m.heap[h].block_id,
                SetBidLocks(RecordIn(a.m.dev, a.m.bc, s, a.m.heap[h].inode_num), base_idx + i))
         \o ResizeLoopLocks(
                UpdateDinodeSetBid(ClearBlock(a.m, a.block_id), h, base_idx + i, a.block_id),
                s, h, base_idx, i + 1, needed_blocks, new_size)

ResizeLoopLocks(m, s, h, base_idx, i, needed_blocks, new_size) ==
    IF m.st # "ok" THEN << >>
    ELSE IF i >= needed_blocks THEN UpdateDinodeLocks(m.heap[h].block_id, << >>)
    ELSE AllocateDataBlockLocks(m, s)
         \o ResizeBlockLocks(AllocateDataBlock(m, s), s, h, base_idx, i, needed_blocks, new_size)

\* The growing arm of resize_inode.
ResizeGrowLocks(m, s, h, old_size, new_size) ==
    IF old_size % BLOCK_SIZE # 0
       /\ new_size - old_size <= BLOCK_SIZE - (old_size % BLOCK_SIZE)
    THEN UpdateDinodeLocks(m.heap[h].block_id, << >>)
    ELSE ResizeLoopLocks(m, s, h, (old_size + BLOCK_SIZE - 1) \div BLOCK_SIZE, 0,
             ((IF old_size % BLOCK_SIZE # 0
               THEN new_size - old_size - (BLOCK_SIZE - (old_size % BLOCK_SIZE))
               ELSE new_size - old_size) + BLOCK_SIZE - 1) \div BLOCK_SIZE,
             new_size)

\* FileSystem::resize_inode on the locked handle h.
ResizeInodeLocks(m, s, h, new_size) ==
    IF m.st # "ok" \/ new_size > CAPACITY_PER_INODE THEN << >>
    ELSE IF new_size > m.heap[h].size THEN ResizeGrowLocks(m, s, h, m.heap[h].size, new_size)
    ELSE << >>



\* InodeCacheBuffer::get, called with the inode cache locked: on a miss the
\* guards `block_cache` and `block` are bound by `let` and live to the end
\* of the arm.
InodeCacheGetLocks(m, s, inum) ==
    IF m.st # "ok" \/ InodeOutOfRange(s, inum) THEN << >>
    ELSE IF InInodeCache(InodeCacheTrim(m.ic), inum) THEN << >>
    ELSE <<Acq(BlockCacheLock), Acq(EntryLock(FindInode(s, inum).block_id)),
           Rel(EntryLock(FindInode(s, inum).block_id)), Rel(BlockCacheLock)>>

\* FileSystem::get_inode
GetInodeLocks(m, s, inum) ==
    <<Acq(InodeCacheLock)>> \o InodeCacheGetLocks(m, s, inum) \o <<Rel(InodeCacheLock)>>

\* FileSystem::read_inode and write_inode on the locked handle h.
ReadInodeLocks(m, h, offset, n) == ReadDataLocks(m, InodeDinode(m.heap[h]), offset, n)
WriteInodeLocks(m, h, offset, n) == WriteDataLocks(m, InodeDinode(m.heap[h]), offset, n)

\* The scan of FileSystem::look_up from entry i, on the locked handle h.
RECURSIVE LookUpLocksFrom(_, _, _, _, _, _)
\* One entry of the scan: r is what read_inode returned for entry i.
LookUpEntryLocks(r, s, h, name, i, files_num) ==
    IF r.m.st # "ok" \/ r.completed # DIR_ENTRY_SIZE THEN << >>
    ELSE IF NameMatches(r.buf, name) THEN GetInodeLocks(r.m, s, DirEntryInum(r.buf))
    ELSE LookUpLocksFrom(r.m, s, h, name, i + 1, files_num)

LookUpLocksFrom(m, s, h, name, i, files_num) ==
    IF m.st # "ok" \/ i >= files_num THEN << >>
    ELSE ReadInodeLocks(m, h, DIR_ENTRY_SIZE * i, DIR_ENTRY_SIZE)
         \o LookUpEntryLocks(ReadInode(m, h, DIR_ENTRY_SIZE * i, DIR_ENTRY_SIZE),
                             s, h, name, i, files_num)

\* FileSystem::look_up
LookUpLocks(m, s, h, name) ==
    IF m.st # "ok" \/ m.heap[h].type_ # InodeTypeDirectory THEN << >>
    ELSE LookUpLocksFrom(m, s, h, name, 0, m.heap[h].size \div DIR_ENTRY_SIZE)

\* allocate_inode once the inode cache answered with g: the guard of the
\* inode cache is a temporary of the match scrutinee and lives to the end of
\* the match, around the lock of the new handle and update_dinode.
InitializeInodeLocks(g, inum_loc, t) ==
    IF g.m.st # "ok" \/ ~g.ok THEN << >>
    ELSE <<Acq(HandleLock(g.h, t))>> \o UpdateDinodeLocks(inum_loc.block_id, << >>)
         \o <<Rel(HandleLock(g.h, t))>>

\* allocate_inode once allocate_bmap returned r.
InodeOfLocks(r, s, t) ==
    IF r.m.st # "ok" \/ ~r.found \/ r.id >= MaxInodeNum(s) THEN << >>
    ELSE <<Acq(InodeCacheLock)>> \o InodeCacheGetLocks(r.m, s, r.id)
         \o InitializeInodeLocks(InodeCacheGet(r.m, s, r.id), FindInode(s, r.id), t)
         \o <<Rel(InodeCacheLock)>>

\* FileSystem::allocate_inode
AllocateInodeLocks(m, s, t) ==
    AllocateBmapLocks(m, s.inode_bmap_start, s.inode_start)
    \o InodeOfLocks(AllocateBmap(m, s.inode_bmap_start, s.inode_start), s, t)

\* create_inode after the directory was resized: the new handle is locked
\* until the call returns, around write_inode and update_dinode.
CreateEntryLocks(r, h, new, base_offset, t) ==
    IF r.m.st # "ok" \/ r.res # "Ok" THEN << >>
    ELSE <<Acq(HandleLock(new, t))>>
         \o WriteInodeLocks(r.m, h, base_offset, DIR_ENTRY_SIZE)
         \o UpdateDinodeLocks(r.m.heap[new].block_id, << >>)
         \o <<Rel(HandleLock(new, t))>>

\* create_inode after allocate_inode returned a.
CreateAllocatedLocks(a, s, h, t) ==
    IF a.m.st # "ok" \/ ~a.some THEN << >>
    ELSE ResizeInodeLocks(a.m, s, h, a.m.heap[h].size + DIR_ENTRY_SIZE)
         \o CreateEntryLocks(ResizeInode(a.m, s, h, a.m.heap[h].size + DIR_ENTRY_SIZE),
                             h, a.h, a.m.heap[h].size, t)

\* create_inode after look_up returned l.
CreateLookedUpLocks(l, s, h, type_, t) ==
    IF l.m.st # "ok" \/ l.some THEN << >>
    ELSE AllocateInodeLocks(l.m, s, t)
         \o CreateAllocatedLocks(AllocateInode(l.m, s, type_), s, h, t)

\* FileSystem::create_inode on the locked directory handle h.
CreateInodeLocks(m, s, h, name, type_, t) ==
    IF m.st # "ok" \/ m.heap[h].type_ # InodeTypeDirectory THEN << >>
    ELSE LookUpLocks(m, s, h, name)
         \o CreateLookedUpLocks(LookUp(m, s, h, name), s, h, type_, t)

\* FileSystem::get_inode_from_path: each level locks `start_at` and keeps it
\* locked while it recurses into the next component.
RECURSIVE GetInodeFromPathLocks(_, _, _, _, _)
\* One level once look_up returned l for the first component.
DescendLocks(l, s, rest, t) ==
    IF l.m.st # "ok" \/ ~l.some THEN << >>
    ELSE GetInodeFromPathLocks(l.m, s, rest, l.h, t)

GetInodeFromPathLocks(m, s, path, start_at, t) ==
    IF m.st # "ok" \/ path = << >> \/ ~Skip(path).some THEN << >>
    ELSE <<Acq(HandleLock(start_at, t))>>
         \o (IF m.heap[start_at].type_ # InodeTypeDirectory THEN << >>
             ELSE LookUpLocks(m, s, start_at, Skip(path).name)
                  \o DescendLocks(LookUp(m, s, start_at, Skip(path).name), s,
                                  Skip(path).rest, t))
         \o <<Rel(HandleLock(start_at, t))>>

\* `block_cache.lock().flush()`: every entry is locked in turn under the
\* lock of the block cache.
RECURSIVE FlushLocksFrom(_, _)
FlushLocksFrom(bc, i) ==
    IF i > Len(bc) THEN << >>
    ELSE <<Acq(EntryLock(bc[i].block_id)), Rel(EntryLock(bc[i].block_id))>>
         \o FlushLocksFrom(bc, i + 1)

FlushLocks(m) == <<Acq(BlockCacheLock)>> \o FlushLocksFrom(m.bc, 1) \o <<Rel(BlockCacheLock)>>



\* The caller of an operation that takes the locked inode:
\* `let mut file = file_lock.lock(); fs.resize_inode(&mut file, ..)`.
Locked(h, body, t) == <<Acq(HandleLock(h, t))>> \o body \o <<Rel(HandleLock(h, t))>>

\* The calls the threads make: on the root directory and on the file "a".
FileHandles == {h \in held : heap[h].type_ = InodeTypeFile}
DirHandles == {h \in held : heap[h].type_ = InodeTypeDirectory}
Calls ==
    {[NoCall EXCEPT !.op = "root"], [NoCall EXCEPT !.op = "flush"]}
    \cup {[NoCall EXCEPT !.op = "look_up", !.h = d, !.name = NameA] : d \in DirHandles}
    \cup {[NoCall EXCEPT !.op = "create_inode", !.h = d, !.name = NameC] : d \in DirHandles}
    \cup {[NoCall EXCEPT !.op = "get_inode_from_path", !.h = d, !.name = <<97, SLASH, 98>>] :
             d \in DirHandles}
    \cup {[NoCall EXCEPT !.op = "resize_inode", !.h = f, !.size = CAPACITY_PER_INODE] :
             f \in FileHandles}
    \cup {[NoCall EXCEPT !.op = o, !.h = f, !.offset = N_DIRECT * BLOCK_SIZE - 1, !.size = 2] :
             o \in {"read_inode", "write_inode"}, f \in FileHandles}

\* The lock operations of a call of thread t, from the present file system.
Program(call, t) ==
    CASE call.op = "root" -> GetInodeLocks(Machine, sb, 0)
      [] call.op = "flush" -> FlushLocks(Machine)
      [] call.op = "look_up" ->
            Locked(call.h, LookUpLocks(Machine, sb, call.h, call.name), t)
      [] call.op = "create_inode" ->
            Locked(call.h,
                   CreateInodeLocks(Machine, sb, call.h, call.name, InodeTypeFile, t), t)
      [] call.op = "get_inode_from_path" ->
            GetInodeFromPathLocks(Machine, sb, call.name, call.h, t)
      [] call.op = "resize_inode" ->
            Locked(call.h, ResizeInodeLocks(Machine, sb, call.h, call.size), t)
      [] call.op = "read_inode" ->
            Locked(call.h, ReadInodeLocks(Machine, call.h, call.offset, call.size), t)
      [] call.op = "write_inode" ->
            Locked(call.h, WriteInodeLocks(Machine, call.h, call.offset, call.size), t)

\* The locks thread t holds, and the lock operation it is at.
Holds(t) == {threads[t].holds[i] : i \in 1..Len(threads[t].holds)}
Busy(t) == threads[t].call.op # "none"
AtOp(t) == Busy(t) /\ threads[t].pc <= Len(threads[t].prog)
NextOp(t) == threads[t].prog[threads[t].pc]
\* spin::Mutex::lock spins while the lock is taken, by whichever thread.
Taken(l) == \E u \in Threads : l \in Holds(u)
Spinning(t) == AtOp(t) /\ NextOp(t).a = "acq" /\ Taken(NextOp(t).l)

\* The held locks once the guard of l is dropped.
Dropped(holds, l) == RemoveAt(holds, CHOOSE i \in 1..Len(holds) : holds[i] = l)

\* A thread enters a call.
DoCall(t, call) ==
    /\ st = "ok" /\ mounted /\ ~Busy(t)
    /\ threads' = [threads EXCEPT ![t] =
                      [call |-> call, prog |-> Program(call, t), pc |-> 1, holds |-> << >>]]
    /\ UNCHANGED <<bmap, dev, sb, block_cache, inode_cache, heap, held, st, mounted,
                   last, lastWrite, created, phase, nops>>

\* spin::Mutex::lock succeeds.
DoLock(t) ==
    /\ AtOp(t) /\ NextOp(t).a = "acq" /\ ~Taken(NextOp(t).l)
    /\ threads' = [threads EXCEPT ![t].holds = Append(@, NextOp(t).l), ![t].pc = @ + 1]
    /\ UNCHANGED <<bmap, dev, sb, block_cache, inode_cache, heap, held, st, mounted,
                   last, lastWrite, created, phase, nops>>

\* A guard is dropped.
DoUnlock(t) ==
    /\ AtOp(t) /\ NextOp(t).a = "rel"
    /\ threads' = [threads EXCEPT ![t].holds = Dropped(@, NextOp(t).l), ![t].pc = @ + 1]
    /\ UNCHANGED <<bmap, dev, sb, block_cache, inode_cache, heap, held, st, mounted,
                   last, lastWrite, created, phase, nops>>

\* The call returns.
DoReturn(t) ==
    /\ Busy(t) /\ ~AtOp(t)
    /\ threads' = [threads EXCEPT ![t] = Idle]
    /\ UNCHANGED <<bmap, dev, sb, block_cache, inode_cache, heap, held, st, mounted,
                   last, lastWrite, created, phase, nops>>

\* The file system the threads share: "a" and "b" created in the root, "a"
\* empty or grown past its direct blocks.
FileSetupGrown ==
    [FileSetup EXCEPT !.m =
        ResizeInode(FileSetup.m, FileSetup.sb,
                    CHOOSE h \in FileSetup.held : FileSetup.m.heap[h].type_ = InodeTypeFile,
                    N_DIRECT * BLOCK_SIZE + 1).m]
LockSetups == {FileSetup, FileSetupGrown}

InitLocks ==
    /\ \E f \in LockSetups :
          /\ dev = f.m.dev
          /\ sb = f.sb
          /\ block_cache = f.m.bc
          /\ inode_cache = f.m.ic
          /\ heap = [h \in Live(f.m, f.held) |-> f.m.heap[h]]
          /\ held = f.held
          /\ st = f.m.st
    /\ mounted = TRUE
    /\ NoHistory

NextLocks ==
    \/ \E t \in Threads, call \in Calls : DoCall(t, call)
    \/ \E t \in Threads : DoLock(t)
    \/ \E t \in Threads : DoUnlock(t)
    \/ \E t \in Threads : DoReturn(t)

SpecLocks == InitLocks /\ [][NextLocks]_vars

\* C21: lock ordering.  With the levels inode cache (1), inode handle (2),
\* block cache (3), block-cache entry (4), no thread acquires a lock of
\* level <= k while it holds a lock of level k: the locks a thread holds
\* were taken in strictly increasing level, so that look_up and
\* create_inode, which run under the directory's handle lock, take neither
\* the inode cache nor a second handle.
C21_LockOrdering ==
    \A t \in Threads :
        \A i \in 1..Len(threads[t].holds), j \in 1..Len(threads[t].holds) :
            i < j => Level(threads[t].holds[i]) < Level(threads[t].holds[j])

\* A write to a direct block has taken handle, block cache and entry in the
\* order of the levels.
C21_OrderedWrite ==
    \E t \in Threads :
        /\ threads[t].call.op = "write_inode"
        /\ Len(threads[t].holds) = 3
        /\ C21_LockOrdering



\* Thread t took a lock of kind second while it held one of kind first.
TookUnder(t, first, second) ==
    \E i \in 1..Len(threads[t].holds), j \in 1..Len(threads[t].holds) :
        i < j /\ threads[t].holds[i].k = first /\ threads[t].holds[j].k = second

\* Every thread in S spins on a lock that another thread of S holds.
Deadlocked(S) ==
    \A t \in S : Spinning(t) /\ \E u \in S \ {t} : NextOp(t).l \in Holds(u)

\* The threads are scheduled fairly: a thread that can go on does, and a
\* lock that is free again and again is obtained in the end.
FairLocks ==
    /\ SpecLocks
    /\ \A t \in Threads : SF_vars(DoLock(t)) /\ WF_vars(DoUnlock(t)) /\ WF_vars(DoReturn(t))

\* C22: deadlock freedom.  With two threads running filesystem operations
\* on one file system, no reachable state has a set of threads each
\* spinning on a lock held by one of them, and every call that was entered
\* returns in the end.
C22_DeadlockFreedom ==
    /\ [](\A S \in SUBSET Threads : S # {} => ~Deadlocked(S))
    /\ \A t \in Threads : Busy(t) ~> ~Busy(t)

\* Two calls that ran side by side and both came to their end.
C22_BothReturn ==
    /\ \A t \in Threads : Busy(t) /\ ~AtOp(t) /\ threads[t].prog # << >>
    /\ threads[1].call.op = "resize_inode" /\ threads[2].call.op = "root"

\* C25: the block-cache lock is not held across entry access.  In every
\* operation the block-cache lock taken for a get is released before the
\* lock of the returned entry is acquired: no thread holds the block-cache
\* lock and an entry lock at the same time.
C25_CacheLockReleased ==
    \A t \in Threads :
        threads[t].call.op # "flush" =>
            ~(BlockCacheLock \in Holds(t) /\ \E l \in Holds(t) : l.k = "entry")

\* clear_block and update_dinode hold the entry without the block cache.
C25_EntryAlone ==
    \E t \in Threads :
        /\ threads[t].call.op = "resize_inode"
        /\ \E l \in Holds(t) : l.k = "entry"
        /\ BlockCacheLock \notin Holds(t)

\* C26: entry locks are leaf locks.  No thread acquires the block-cache
\* lock while it holds an entry lock; the closure resize_inode runs through
\* update_dinode takes no block-cache lock when set_bid writes an indirect
\* slot.
C26_EntryLocksAreLeaves ==
    \A t \in Threads : ~TookUnder(t, "entry", "block_cache")

\* set_bid of a direct slot under the entry of the inode's block.
C26_DirectSlotUnderEntry ==
    \E t \in Threads :
        /\ threads[t].call.op = "resize_inode"
        /\ AtOp(t) /\ NextOp(t).a = "rel" /\ NextOp(t).l.k = "entry"
        /\ NextOp(t).l.n = heap[threads[t].call.h].block_id
        /\ BlockCacheLock \notin Holds(t)

\* C27: the inode-cache lock is released before an inode handle is locked.
\* No thread holds the inode-cache lock at the moment it acquires an inode
\* handle's lock; allocate_inode has released it before it locks the new
\* handle.
C27_InodeCacheReleased ==
    \A t \in Threads : ~TookUnder(t, "inode_cache", "inode")

\* A caller locks a handle it was given earlier, the inode cache released.
C27_HandleLockedAlone ==
    \E t \in Threads :
        /\ threads[t].call.op = "look_up"
        /\ threads[t].holds = <<HandleLock(threads[t].call.h, t)>>
        /\ threads[t].pc = 2
        /\ ~Taken(InodeCacheLock)



(* Handle identity, isolation of inodes, transfers, creation and layout. *)
\* C31: handle identity.  While a caller holds the handle returned for
\* inode number n, every later request for n returns that same cell: no
\* second cell of n exists beside a held one, and the inode cache never
\* drops an entry whose handle the caller still holds.
C31_HandleIdentity ==
    /\ \A h1 \in held, h2 \in DOMAIN heap :
          heap[h1].inode_num = heap[h2].inode_num => h1 = h2
    /\ \A h \in held : \E i \in 1..Len(inode_cache) : inode_cache[i].h = h

\* A request for an inode the cache still held returned the cached cell.
C31_SameCellOnHit ==
    /\ last.op = "inode_cache_get" /\ last.res = "Ok"
    /\ \E i \in 1..Len(last.inode_cache) :
          last.inode_cache[i] = [inum |-> last.inum, h |-> last.rh]
    /\ last.rh \in held
    /\ \A h \in DOMAIN heap : heap[h].inode_num = last.inum => h = last.rh


\* C32: write isolation.  write_inode(i, ..) and resize_inode(i, s) change
\* only inode i: for every other valid inode j the size of j, the block
\* mapping of j and the bytes read from j are what they were before the
\* call, also when i and j both have more blocks than the direct count.
C32_WriteIsolation ==
    (last.op \in {"resize_inode", "write_inode"} /\ st = "ok") =>
        OthersOf(last.inum) = last.others

\* A file was resized or written while another file held data in its direct
\* blocks, and that other file reads as before.
C32_OtherUntouched ==
    /\ last.op \in {"resize_inode", "write_inode"} /\ st = "ok"
    /\ OthersOf(last.inum) = last.others
    /\ \E j \in DOMAIN last.others :
          /\ RecordOf(j).type_ = InodeTypeFile
          /\ last.others[j].size > 0


\* The length of the buffer handed to the last read_inode or write_inode.
TransferAsked == IF last.op = "read_inode" THEN last.n ELSE Len(last.buf)

\* C33: transfer bounds.  For every inode and every offset <= size,
\* read_inode and write_inode with a buffer of n bytes return, having
\* transferred exactly min(n, size - offset) bytes, and return that number;
\* a read fills exactly that many bytes and none from a position >= size.
C33_TransferBounds ==
    (last.op \in {"read_inode", "write_inode"} /\ last.offset <= heap[last.h].size) =>
        /\ last.res = "Returned"
        /\ last.completed = MinOf(TransferAsked, heap[last.h].size - last.offset)
        /\ last.op = "read_inode" => Len(last.buf) = last.completed

\* A transfer that the size cut short: it ends in the last direct block and
\* moves fewer bytes than the buffer holds.
C33_CutShort ==
    /\ last.op \in {"read_inode", "write_inode"} /\ last.res = "Returned"
    /\ last.offset < heap[last.h].size
    /\ heap[last.h].size - last.offset < TransferAsked
    /\ last.completed = heap[last.h].size - last.offset


\* The inode numbers whose bit the inode bitmap of a snapshot has set.
InUseIn(bitmaps) ==
    UNION {{(b - sb.inode_bmap_start) * BITS_PER_BYTE * BLOCK_SIZE + k :
               k \in BitmapBits(ViewAs(bitmaps[b], "bytes"))} :
           b \in sb.inode_bmap_start..(sb.inode_start - 1)}

\* The last call was a create_inode that returned Ok for a name no entry of
\* the directory carried.
CreatedNew ==
    /\ last.op = "create_inode" /\ last.res = "Ok"
    /\ Matching(last.before.entries, last.name) = {}

\* What look_up of the created name gives on the directory handle now.
LookUpCreated == LookUp(Machine, sb, last.h, last.name)

\* C34: successful create.  When create_inode(d, n, T) returns Ok(h) for a
\* name n not present in d, size(d) has grown by exactly DIR_ENTRY_SIZE, the
\* entry at the old size is (n, inode number of h), the earlier entries are
\* unchanged, h has type T, size 0 and link count 1, its inode number was
\* not in use before the call, and look_up(d, n) returns h's inode.
C34_SuccessfulCreate ==
    CreatedNew =>
        /\ RecordOf(last.dir).size = last.before.record.size + DIR_ENTRY_SIZE
        /\ Len(EntriesOf(last.dir)) = Len(last.before.entries) + 1
        /\ EntriesOf(last.dir)[Len(last.before.entries) + 1] =
              DirEntryNew(last.name, last.rinum)
        /\ \A e \in DOMAIN last.before.entries :
              EntriesOf(last.dir)[e] = last.before.entries[e]
        /\ RecordOf(last.rinum).type_ = last.type_
        /\ RecordOf(last.rinum).size = 0
        /\ RecordOf(last.rinum).links_num = 1
        /\ last.rinum \notin InUseIn(last.before.bitmaps)
        /\ LookUpCreated.m.st = "ok" /\ LookUpCreated.some
        /\ LookUpCreated.m.heap[LookUpCreated.h].inode_num = last.rinum

\* A second name was created in a directory: its entry follows the first
\* one, and look_up finds it.
C34_SecondEntry ==
    /\ CreatedNew
    /\ Len(last.before.entries) = 1
    /\ EntriesOf(last.dir) =
          <<last.before.entries[1], DirEntryNew(last.name, last.rinum)>>
    /\ RecordOf(last.rinum).type_ = last.type_
    /\ RecordOf(last.rinum).links_num = 1
    /\ last.rinum \notin InUseIn(last.before.bitmaps)
    /\ LookUpCreated.some
    /\ LookUpCreated.m.heap[LookUpCreated.h].inode_num = last.rinum


\* The last call was a FileSystem::create that returned a file system.
CreateAccepted == last.op = "create" /\ last.res = "Ok"

\* The blocks of the four regions behind the super block and the log block.
InodeBitmapRegion == sb.inode_bmap_start..(sb.inode_start - 1)
InodeRegion == sb.inode_start..(sb.data_bmap_start - 1)
DataBitmapRegion == sb.data_bmap_start..(sb.data_start - 1)

\* C35: layout.  For every (total_blocks, inode_blocks) that create accepts,
\* inode_bmap_start = 2 < inode_start < data_bmap_start < data_start,
\* data_bmap_start - inode_start = inode_blocks, and data_start + data_blocks
\* <= total_blocks; the four regions are disjoint and inside the device, and
\* no subtraction of the computation goes below zero.
C35_Layout ==
    CreateAccepted =>
        /\ sb.blocks = last.total_blocks /\ sb.inode_blocks = last.inode_blocks
        /\ sb.inode_bmap_start = 2
        /\ sb.inode_bmap_start < sb.inode_start
        /\ sb.inode_start < sb.data_bmap_start
        /\ sb.data_bmap_start < sb.data_start
        /\ sb.data_bmap_start - sb.inode_start = sb.inode_blocks
        /\ sb.data_start + sb.data_blocks <= sb.blocks
        /\ InodeBitmapRegion \cap InodeRegion = {}
        /\ InodeBitmapRegion \cap DataBitmapRegion = {}
        /\ InodeBitmapRegion \cap DataRegion = {}
        /\ InodeRegion \cap DataBitmapRegion = {}
        /\ InodeRegion \cap DataRegion = {}
        /\ DataBitmapRegion \cap DataRegion = {}
        /\ (InodeBitmapRegion \cup InodeRegion \cup DataBitmapRegion \cup DataRegion)
              \subseteq (SUPER_BLOCK_LOC + 1)..(sb.blocks - 1)
        /\ last.total_blocks >= 2
        /\ last.total_blocks - 2 >=
              InodeBmapBlocks(last.inode_blocks) + last.inode_blocks
        /\ sb.data_blocks >= 0

\* create accepted the smallest layout of the explored ones that has a data
\* block left, and a layout with several inode blocks.
C35_SmallestAccepted ==
    /\ CreateAccepted
    /\ last.total_blocks = 6 /\ last.inode_blocks = InodeBlocks
    /\ sb.data_blocks = 0


(***************************************************************************)
(* Layouts of larger devices: FileSystem::create on a device whose bitmaps *)
(* can take more than one block, followed by allocations.                  *)
(***************************************************************************)
WideBlocks == 40
WideInodeBlocks == 4
\* Devices too small, devices with one bitmap block for each region, and
\* devices whose data bitmap takes a second block.
WideLayouts == {1, 4, 8, WideBlocks - 10, WideBlocks - 7, WideBlocks} \X (0..WideInodeBlocks)
WideDevice == [b \in 0..(WideBlocks - 1) |-> ZeroBlock]

InitLayout ==
    /\ dev = WideDevice
    /\ sb = ZeroSuperBlock
    /\ block_cache = << >>
    /\ inode_cache = << >>
    /\ heap = << >>
    /\ held = {}
    /\ st = "ok"
    /\ mounted = FALSE
    /\ NoHistory

NextLayout ==
    \/ \E l \in WideLayouts : DoCreate(l[1], l[2])
    \/ DoAllocateDataBlock
    \/ DoAllocateInode(InodeTypeFile)

SpecLayout == InitLayout /\ [][NextLayout]_vars

\* The bits a bitmap region of blocks start..(end - 1) holds.
BitsHeld(start, end) == (end - start) * BLOCK_SIZE * BITS_PER_BYTE

MaxFrees == 3
ByteSamples == {0, 127, BYTE_FULL}
BitmapSamples == [1..BLOCK_SIZE -> ByteSamples]
BitIndices == 0..(BLOCK_SIZE * BITS_PER_BYTE - 1)
\* The indices free is called with: those allocate returned, and the first
\* and the last bit of the block.
FreeSamples == bmap.out \cup {0, BLOCK_SIZE * BITS_PER_BYTE - 1}

\* bmap.allocate()
DoBitmapAllocate ==
    /\ st = "ok"
    /\ LET a == BitmapAllocate(bmap.inner) IN
       /\ bmap' = [bmap EXCEPT !.inner = a.inner,
                               !.out = IF a.found THEN @ \cup {a.idx} ELSE @,
                               !.allocs = IF a.found THEN @ + 1 ELSE @]
       /\ last' = [op |-> "bitmap_allocate", before |-> bmap.inner, i |-> bmap.allocs,
                   frees |-> nops, res |-> IF a.found THEN "Some" ELSE "None",
                   idx |-> a.idx]
    /\ UNCHANGED <<dev, sb, block_cache, inode_cache, heap, held, st, mounted,
                   lastWrite, created, phase, nops, threads>>

\* bmap.free(idx)
DoBitmapFree(idx) ==
    /\ st = "ok" /\ nops < MaxFrees
    /\ LET f == BitmapFree(bmap.inner, idx) IN
       /\ bmap' = [bmap EXCEPT !.inner = f.inner, !.out = @ \ {idx},
                               !.other = @ \/ idx \notin bmap.out]
       /\ st' = IF f.ok THEN "ok" ELSE "panic"
       /\ last' = [op |-> "bitmap_free", before |-> bmap.inner, i |-> bmap.allocs,
                   frees |-> nops, res |-> IF f.ok THEN "Returned" ELSE "panic",
                   idx |-> idx]
    /\ nops' = nops + 1
    /\ UNCHANGED <<dev, sb, block_cache, inode_cache, heap, held, mounted,
                   lastWrite, created, phase, threads>>

InitBitmap ==
    /\ dev = ZeroDevice
    /\ sb = ZeroSuperBlock
    /\ block_cache = << >>
    /\ inode_cache = << >>
    /\ heap = << >>
    /\ held = {}
    /\ st = "ok"
    /\ mounted = FALSE
    /\ last = [op |-> "none"]
    /\ lastWrite = [i \in InodeNums |-> NoWrite]
    /\ created = {}
    /\ phase = "none"
    /\ nops = 0
    /\ threads = NoThreads
    /\ \E inner \in BitmapSamples : bmap = BitmapOf(inner)

NextBitmap ==
    \/ DoBitmapAllocate
    \/ \E idx \in FreeSamples : DoBitmapFree(idx)

SpecBitmap == InitBitmap /\ [][NextBitmap]_vars

\* C37: BitmapBlock allocate and free.  allocate returns the index of the
\* lowest clear bit and sets exactly that bit; it returns None, changing
\* nothing, exactly when every bit is set, so that the i-th call on an empty
\* block returns i.  free(k) clears exactly bit k when it is set and panics
\* when it is clear.  Allocations followed by a free of each returned index,
\* in any order, leave the block as it started.
C37_BitmapAllocateFree ==
    /\ last.op = "bitmap_allocate" =>
          /\ (last.res = "None") = (BitmapBits(last.before) = BitIndices)
          /\ last.res = "None" => bmap.inner = last.before
          /\ last.res = "Some" =>
                /\ last.idx = Min(BitIndices \ BitmapBits(last.before))
                /\ BitmapBits(bmap.inner) = BitmapBits(last.before) \cup {last.idx}
          /\ (bmap.start = Zeros(BLOCK_SIZE) /\ last.frees = 0) =>
                (last.res = "Some" <=> last.i < BLOCK_SIZE * BITS_PER_BYTE)
          /\ (bmap.start = Zeros(BLOCK_SIZE) /\ last.frees = 0 /\ last.res = "Some") =>
                last.idx = last.i
    /\ last.op = "bitmap_free" =>
          /\ (last.res = "panic") = (last.idx \notin BitmapBits(last.before))
          /\ (last.res = "panic") = (st = "panic")
          /\ last.res = "Returned" =>
                BitmapBits(bmap.inner) = BitmapBits(last.before) \ {last.idx}
    /\ \A i \in 1..BLOCK_SIZE : bmap.inner[i] \in 0..BYTE_FULL
    /\ (st = "ok" /\ bmap.out = {} /\ ~bmap.other) => bmap.inner = bmap.start

\* Three allocations that crossed from one byte into the next were freed
\* in an order other than the one they were made in, and the block is as it
\* started.
C37_FreedOutOfOrder ==
    /\ last.op = "bitmap_free" /\ last.res = "Returned"
    /\ bmap.allocs = MaxFrees /\ bmap.out = {} /\ ~bmap.other
    /\ bmap.start = <<127, 0, 0>>
    /\ last.idx = 7
    /\ bmap.inner = bmap.start


\* What read_inode gives for the bytes a resize has just added, read on the
\* handle that was resized.
GrownRead == ReadInode(Machine, last.h, last.old_size, last.new_size - last.old_size)

\* C38: grown bytes read as zero.  After resize_inode has grown an inode
\* from s0 to s1, read_inode over [s0, s1) returns s1 - s0 bytes that are
\* all zero until they are written, in the new blocks and in the slack of
\* the block that held the old end.
C38_GrownBytesZero ==
    (last.op = "resize_inode" /\ last.res = "Ok" /\ last.new_size > last.old_size) =>
        /\ GrownRead.m.st = "ok"
        /\ GrownRead.completed = last.new_size - last.old_size
        /\ GrownRead.buf = Zeros(last.new_size - last.old_size)

\* A file that had been written grew inside its direct blocks, and the
\* added bytes read as zero.
C38_GrownInDirectZero ==
    /\ last.op = "resize_inode" /\ last.res = "Ok" /\ last.new_size > last.old_size
    /\ last.new_size <= N_DIRECT * BLOCK_SIZE
    /\ \E j \in DOMAIN last.others : lastWrite[j].some
    /\ GrownRead.m.st = "ok"
    /\ GrownRead.buf = Zeros(last.new_size - last.old_size)


\* C39: separator-only paths.  get_inode_from_path with a non-empty path
\* that has no component ("/", "///") returns the start inode, as it does
\* for the empty path.
C39_SeparatorOnlyPath ==
    (/\ last.op = "get_inode_from_path"
     /\ last.path # << >> /\ Components(last.path) = << >>) =>
        (last.res = "Some" /\ last.rh = last.h)

\* get_inode_from_path was asked for "/" from a directory and returned.
C39_SlashResolved ==
    /\ last.op = "get_inode_from_path" /\ last.path = <<SLASH>>
    /\ heap[last.h].type_ = InodeTypeDirectory
    /\ last.res \in {"Some", "None"}


\* The last call was a read_inode or write_inode at an offset past the size
\* of the handle it was given.
PastTheEnd ==
    /\ last.op \in {"read_inode", "write_inode"}
    /\ last.offset > last.size

\* C40: offsets past the end.  read_inode and write_inode with an offset
\* greater than the size transfer no byte, access no block and return 0;
\* `size - offset` neither panics nor wraps.
C40_OffsetPastEnd ==
    PastTheEnd =>
        /\ last.res = "Returned"
        /\ last.completed = 0
        /\ block_cache = last.block_cache
        /\ dev = last.dev

\* A write at an offset past the size ran in a build without overflow
\* checks and moved the whole buffer into a block the file does not own.
C40_WroteOutsideFile ==
    /\ PastTheEnd /\ last.op = "write_inode"
    /\ last.res = "Returned" /\ last.completed = Len(last.buf)
    /\ block_cache # last.block_cache

=============================================================================
